---- MODULE Spec2Model ----
(***************************************************************************)
(* A model of the ChaosClaw registry watcher (ERC8004Watcher): the polling *)
(* generator watch()/_poll_once(), its in-memory checkpoint (last_block,   *)
(* seen_agents) and the checkpoint file written by _save_state().          *)
(*                                                                         *)
(* The chain is the environment: a growing log of Transfer events, one     *)
(* block at a time.  The watcher is one sequential task; its position in   *)
(* watch()/_poll_once() is pc.                                             *)
(***************************************************************************)
EXTENDS Integers, Sequences, FiniteSets, TLC

\* ---------------------------------------------------------------- bounds
\* Highest block number the chain reaches (blocks are numbered from 0).
MaxBlock == 1
\* Token ids minted by the registry are 1..MaxId.
MaxId == 2
\* lookback_blocks of the watcher (1000 by default), at model scale.
LookbackBlocks == 1

\* max_tweets_per_hour of the publisher (10 by default), at model scale.
MaxPerHour == 2
\* How often the clock advances, and how many post() calls are made.
MaxTicks == 3
MaxPosts == 4
\* Raw contract values from -MaxRaw to MaxRaw and decimals up to MaxDecimals
\* are normalized (with a few larger raw values besides).
MaxRaw == 1100
MaxDecimals == 3
\* calculate_average_score is given lists of up to MaxDims values (a
\* profile has five dimensions).
MaxDims == 5

\* The longest entity id given to format_tweet, in decimal digits (an id
\* below 2^63 has at most 19).
MaxIdDigits == 22

\* ------------------------------------------------------------- constants
\* The rate-limit window of the publisher, in seconds.
HOUR == 3600

\* TrustFilter.min_trust_score by default.
DefaultMinTrustScore == 60

\* format_tweet: the length limit, the number of dimensions shown, and the
\* characters of the two templates outside their fields (as the source
\* file spells them).
TweetLimit == 280
MaxDimsShown == 3
FullTemplateChars == 159
FallbackTemplateChars == 118
DimHeaderChars == 6

\* Python's None for Optional[int] last_block; block numbers are >= 0.
None == -1

ZERO_ADDRESS == "0x0000000000000000000000000000000000000000"
OTHER_ADDRESS == "0x00000000000000000000000000000000000000A1"

Ids == 1..MaxId

\* A Transfer(from, to, tokenId) log entry; only from and tokenId are read.
TransferEvents == [from : {ZERO_ADDRESS, OTHER_ADDRESS}, tokenId : Ids]

\* What one block holds: no Transfer event, or one.
BlockContents == {<<>>} \cup {<<e>> : e \in TransferEvents}

VARIABLES
    chain,          \* the registry's event log: chain[k+1] is block k
    disk,           \* the checkpoint file (state_file)
    last_block,     \* self.last_block
    seen_agents,    \* self.seen_agents
    pc,             \* where the watcher task is
    current_block,  \* _poll_once: current_block
    from_block,     \* _poll_once: from_block
    events,         \* _poll_once: the events not yet iterated
    agent_id,       \* _poll_once: agent_id of the event being enriched
    yielded,        \* history: the agent ids watch() has yielded, in order
    failed,         \* history: ids whose enrichment raised
    scan_start,     \* history: from_block of this process's first get_logs
    cycle           \* history of the current poll cycle (see NewCycle)

\* The publisher (XPoster) and the clock it reads.
VARIABLES
    now,            \* time.time(), in seconds
    ticks,          \* history: how often the clock has advanced
    dry_run,        \* self.dry_run
    client,         \* self.client is not None
    recent_tweets,  \* self.recent_tweets
    post_pc,        \* where post() is: "idle", "publishing" or "raised"
    post,           \* history of the current or last post() call (see NoPost)
    calls           \* history: the post() calls that have returned

\* The last call of a pure function: its name, arguments and result.
VARIABLES
    call

\* The orchestrator (run_chaosclaw), the consumer of watch().
VARIABLES
    main_pc,        \* where the loop body is: "waiting" for the next profile,
                    \* "announce" (the filter passed), "posting", "resume"
    started,        \* history: the number of post() calls begun
    log             \* history: one entry per profile received (see MainFilter)

\* The processes: the watcher can be killed and started again.
VARIABLES
    boot,           \* history: the file this process found when it started
    prior           \* history: the process that was killed (see NoPrior)

watcherVars ==
    <<chain, disk, last_block, seen_agents, pc, current_block, from_block,
      events, agent_id, yielded, failed, scan_start, cycle>>

posterVars ==
    <<now, ticks, dry_run, client, recent_tweets, post_pc, post, calls>>

pureVars == <<call>>

mainVars == <<main_pc, started, log>>

procVars == <<boot, prior>>

vars == <<watcherVars, posterVars, pureVars, mainVars, procVars>>

\* ------------------------------------------------------------- helpers
Max(a, b) == IF a >= b THEN a ELSE b

Range(s) == {s[i] : i \in 1..Len(s)}

\* Highest block number mined so far.
Height == Len(chain) - 1

RECURSIVE Logs(_, _)
\* Transfer.get_logs(from_block, to_block): the events of the blocks
\* from_block..to_block, in block order.
Logs(f, t) == IF f > t THEN <<>> ELSE chain[f + 1] \o Logs(f + 1, t)

\* from = zero address: the transfer is a mint.
IsMint(e) == e.from = ZERO_ADDRESS

\* The ids minted in blocks f..t.
MintedIn(f, t) == {e.tokenId : e \in {x \in Range(Logs(f, t)) : IsMint(x)}}

\* ------------------------------------------------------- checkpoint file
\* The file does not exist.
Absent == [kind |-> "absent"]
\* The file exists and json.load fails on it (a write that broke off).
Garbage == [kind |-> "garbage"]
\* The document _save_state writes.
Doc(b, s) == [kind |-> "doc", last_block |-> b, seen_agents |-> s]

\* The file holds JSON that is no object (state.get raises).
NotObject == [kind |-> "notobject"]
\* The file holds a JSON object whose "seen_agents" cannot be made a set
\* (null, a number, a list of lists): set(...) raises.
BadSeen(b) == [kind |-> "badseen", last_block |-> b]

\* LoadState that takes last_block from the file and leaves the seen set
\* empty.
LoadState_NoSeen(d) ==
    IF d.kind \in {"doc", "badseen"}
    THEN [last_block |-> d.last_block, seen_agents |-> {}]
    ELSE [last_block |-> None, seen_agents |-> {}]

\* _load_state: the (last_block, seen_agents) the constructor ends with.
\* self.last_block is assigned before set(...) is evaluated, and whatever
\* raises is caught and logged.
LoadState(d) ==
    IF d.kind = "doc"
    THEN [last_block |-> d.last_block, seen_agents |-> d.seen_agents]
    ELSE IF d.kind = "badseen"
    THEN [last_block |-> d.last_block, seen_agents |-> {}]
    ELSE [last_block |-> None, seen_agents |-> {}]

\* SavedDoc without the seen set.
SavedDoc_NoSeen == Doc(last_block, {})

\* What _save_state puts into the file when the write succeeds.
SavedDoc == Doc(last_block, seen_agents)

\* The per-cycle history record, as it is when a cycle begins.
\*   outcome          "none" (running), "raised", "noop" or "scanned"
\*   prev_last_block  last_block when the cycle began
\*   seen_start       seen_agents when the cycle began
\*   yield_mark       Len(yielded) when the cycle began
\*   queried          get_logs was called
\*   fetch_failed     get_logs raised
\*   saves            number of _save_state calls of the cycle
\*   save_ok          the last _save_state call wrote the file
NewCycle ==
    [outcome |-> "none", prev_last_block |-> last_block,
     seen_start |-> seen_agents, yield_mark |-> Len(yielded),
     queried |-> FALSE, fetch_failed |-> FALSE, saves |-> 0, save_ok |-> FALSE]

\* ------------------------------------------------------------------ Init
\* The files a start can find: none, an unreadable one, or the checkpoint a
\* previous run wrote after scanning up to block 0.
InitDisks ==
    {Absent, Garbage} \cup {Doc(0, s) : s \in SUBSET MintedIn(0, 0)}

WatcherInit ==
    /\ chain \in {<<b>> : b \in BlockContents}
    /\ disk \in InitDisks
    /\ last_block = LoadState(disk).last_block
    /\ seen_agents = LoadState(disk).seen_agents
    /\ pc = "poll"
    /\ current_block = 0
    /\ from_block = 0
    /\ events = <<>>
    /\ agent_id = 0
    /\ yielded = <<>>
    /\ failed = {}
    /\ scan_start = None
    /\ cycle = NewCycle

\* A post() call that has not happened.  The history of a call:
\*   at         the clock at the rate check
\*   before     recent_tweets when post() was called
\*   checked    recent_tweets after the rate check's eviction
\*   allowed    the result of _check_rate_limit
\*   published  create_tweet was called
\*   failure    "none", "rejected" (TweepyException) or "transport"
\*   result     "none", "pending", "true", "false" or "raised"
\*   done       the clock when the call returned
\*   after      recent_tweets when the call returned
NoPost ==
    [at |-> 0, before |-> <<>>, checked |-> <<>>, allowed |-> FALSE,
     published |-> FALSE, failure |-> "none", result |-> "none", done |-> 0,
     after |-> <<>>]

\* The publisher before its first post(), in dry-run mode with no client.
PosterIdle ==
    /\ now = 0
    /\ ticks = 0
    /\ dry_run = TRUE
    /\ client = FALSE
    /\ recent_tweets = <<>>
    /\ post_pc = "idle"
    /\ post = NoPost
    /\ calls = <<>>

\* No pure function has been called.
NoCall == [fn |-> "none"]

PureIdle == call = NoCall

\* The orchestrator has not received a profile.
MainIdle == main_pc = "waiting" /\ started = 0 /\ log = <<>>

\* No process has been killed.  The history of a killed process:
\*   pc             where it was killed
\*   mid_cycle      it was killed in a cycle that had fetched its events and
\*                  had not begun to write its checkpoint
\*   from_block, current_block    the range of that cycle
\*   yielded        the ids it had yielded
NoPrior ==
    [happened |-> FALSE, pc |-> "none", mid_cycle |-> FALSE, from_block |-> 0,
     current_block |-> 0, yielded |-> {}]

\* What a starting process finds in the file d.
Boot(d) ==
    IF d.kind = "doc"
    THEN [loaded |-> TRUE, last_block |-> d.last_block,
          seen_agents |-> d.seen_agents]
    ELSE [loaded |-> FALSE, last_block |-> None, seen_agents |-> {}]

\* The first process.
ProcFirst == boot = Boot(disk) /\ prior = NoPrior

\* The watcher after construction; the publisher has not been used.
Init == WatcherInit /\ PosterIdle /\ PureIdle /\ MainIdle /\ ProcFirst

\* ------------------------------------------------------------- the chain
\* A block is mined.  The watcher reads the chain only in the first step of
\* _poll_once, so a block mined at any other moment is observed exactly as
\* one mined just before the next poll: mining is interleaved there only.
Mine ==
    /\ pc = "poll"
    /\ Height < MaxBlock
    /\ \E b \in BlockContents : chain' = Append(chain, b)
    /\ UNCHANGED <<disk, last_block, seen_agents, pc, current_block, from_block,
                   events, agent_id, yielded, failed, cycle,
                   scan_start>>
    /\ UNCHANGED <<posterVars, pureVars, mainVars, procVars>>

\* ----------------------------------------------------------- _poll_once
\* FromBlock that starts at last_block itself.
FromBlock_Rescan(h) ==
    IF last_block = None THEN Max(0, h - LookbackBlocks) ELSE last_block

\* from_block of a cycle that reads chain height h.
FromBlock(h) ==
    IF last_block = None THEN Max(0, h - LookbackBlocks) ELSE last_block + 1

\* NoNewBlocks with the early return left out.
NoNewBlocks_Never(f, h) == FALSE

\* if from_block > current_block: nothing to scan.
NoNewBlocks(f, h) == f > h

\* PollRaises with the exception leaving watch(): the generator ends.
PollRaises_Propagates ==
    /\ pc = "poll"
    /\ pc' = "stopped"
    /\ cycle' = [cycle EXCEPT !.outcome = "raised"]
    /\ UNCHANGED <<chain, disk, last_block, seen_agents, current_block,
                   from_block, events, agent_id, yielded, failed,
                   scan_start>>
    /\ UNCHANGED <<posterVars, pureVars, mainVars, procVars>>

\* w3.eth.block_number raises: the exception leaves _poll_once and is
\* caught in watch(), which goes on to sleep.
PollRaises ==
    /\ pc = "poll"
    /\ pc' = "sleep"
    /\ cycle' = [cycle EXCEPT !.outcome = "raised"]
    /\ UNCHANGED <<chain, disk, last_block, seen_agents, current_block,
                   from_block, events, agent_id, yielded, failed,
                   scan_start>>
    /\ UNCHANGED <<posterVars, pureVars, mainVars, procVars>>

\* from_block > current_block: _poll_once returns at once.
PollNoNewBlocks ==
    /\ pc = "poll"
    /\ \E h \in 0..Height :
        /\ NoNewBlocks(FromBlock(h), h)
        /\ current_block' = h
        /\ from_block' = FromBlock(h)
    /\ pc' = "save"
    /\ cycle' = [cycle EXCEPT !.outcome = "noop"]
    /\ UNCHANGED <<chain, disk, last_block, seen_agents, events, agent_id,
                   yielded, failed,
                   scan_start>>
    /\ UNCHANGED <<posterVars, pureVars, mainVars, procVars>>

\* PollFetch that advances last_block and writes the checkpoint as soon as
\* the events are fetched, before any of them is enriched.
PollFetch_SavesFirst ==
    /\ pc = "poll"
    /\ \E h \in 0..Height :
        /\ ~NoNewBlocks(FromBlock(h), h)
        /\ current_block' = h
        /\ from_block' = FromBlock(h)
        /\ events' = Logs(FromBlock(h), h)
        /\ last_block' = h
        /\ disk' = Doc(h, seen_agents)
    /\ scan_start' = IF scan_start = None THEN from_block' ELSE scan_start
    /\ pc' = "loop"
    /\ cycle' = [cycle EXCEPT !.queried = TRUE]
    /\ UNCHANGED <<chain, seen_agents, agent_id, yielded, failed>>
    /\ UNCHANGED <<posterVars, pureVars, mainVars, procVars>>

\* The range is not empty and get_logs returns its events.
PollFetch ==
    /\ pc = "poll"
    /\ \E h \in 0..Height :
        /\ ~NoNewBlocks(FromBlock(h), h)
        /\ current_block' = h
        /\ from_block' = FromBlock(h)
        /\ events' = Logs(FromBlock(h), h)
    /\ scan_start' = IF scan_start = None THEN from_block' ELSE scan_start
    /\ pc' = "loop"
    /\ cycle' = [cycle EXCEPT !.queried = TRUE]
    /\ UNCHANGED <<chain, disk, last_block, seen_agents, agent_id, yielded,
                   failed>>
    /\ UNCHANGED <<posterVars, pureVars, mainVars, procVars>>

\* The range is not empty and get_logs raises: events = [].
PollFetchFails ==
    /\ pc = "poll"
    /\ \E h \in 0..Height :
        /\ ~NoNewBlocks(FromBlock(h), h)
        /\ current_block' = h
        /\ from_block' = FromBlock(h)
    /\ events' = <<>>
    /\ scan_start' = IF scan_start = None THEN from_block' ELSE scan_start
    /\ pc' = "loop"
    /\ cycle' = [cycle EXCEPT !.queried = TRUE, !.fetch_failed = TRUE]
    /\ UNCHANGED <<chain, disk, last_block, seen_agents, agent_id, yielded,
                   failed>>
    /\ UNCHANGED <<posterVars, pureVars, mainVars, procVars>>

\* Skips without the "already seen" test.
Skips_NoDedup(e) == ~IsMint(e)

\* Skips without the test for the zero address.
Skips_AnyTransfer(e) == e.tokenId \in seen_agents

\* The for loop skips this event: not a mint, or an id already seen.
Skips(e) == ~IsMint(e) \/ e.tokenId \in seen_agents

\* for event in events: an event that is skipped.
LoopSkip ==
    /\ pc = "loop"
    /\ events # <<>>
    /\ Skips(Head(events))
    /\ events' = Tail(events)
    /\ UNCHANGED <<chain, disk, last_block, seen_agents, pc, current_block,
                   from_block, agent_id, yielded, failed, cycle,
                   scan_start>>
    /\ UNCHANGED <<posterVars, pureVars, mainVars, procVars>>

\* MarkSeen that forgets the ids seen before.
MarkSeen_Replace(id) == {id}

\* self.seen_agents.add(agent_id)
MarkSeen(id) == seen_agents \cup {id}

\* LoopAccept that does not mark the id before enrichment.
LoopAccept_MarkLater ==
    /\ pc = "loop"
    /\ events # <<>>
    /\ ~Skips(Head(events))
    /\ agent_id' = Head(events).tokenId
    /\ events' = Tail(events)
    /\ pc' = "fetch"
    /\ UNCHANGED <<chain, disk, last_block, seen_agents, current_block,
                   from_block, yielded, failed, scan_start, cycle>>
    /\ UNCHANGED <<posterVars, pureVars, mainVars, procVars>>

\* for event in events: a new mint; the id is added to seen_agents and
\* _fetch_agent_trust is called.
LoopAccept ==
    /\ pc = "loop"
    /\ events # <<>>
    /\ ~Skips(Head(events))
    /\ agent_id' = Head(events).tokenId
    /\ seen_agents' = MarkSeen(Head(events).tokenId)
    /\ events' = Tail(events)
    /\ pc' = "fetch"
    /\ UNCHANGED <<chain, disk, last_block, current_block, from_block, yielded,
                   failed, cycle,
                   scan_start>>
    /\ UNCHANGED <<posterVars, pureVars, mainVars, procVars>>

\* FetchYields that sets last_block before the profile is handed over.
FetchYields_AdvancesFirst ==
    /\ pc = "fetch"
    /\ yielded' = Append(yielded, agent_id)
    /\ last_block' = current_block
    /\ pc' = "yielded"
    /\ UNCHANGED <<chain, disk, seen_agents, current_block, from_block, events,
                   agent_id, failed, cycle, scan_start>>
    /\ UNCHANGED <<posterVars, pureVars, mainVars, procVars>>

\* _fetch_agent_trust returns: the profile is yielded.
FetchYields ==
    /\ pc = "fetch"
    /\ yielded' = Append(yielded, agent_id)
    /\ pc' = "yielded"
    /\ UNCHANGED <<chain, disk, last_block, seen_agents, current_block,
                   from_block, events, agent_id, failed, cycle,
                   scan_start>>
    /\ UNCHANGED <<posterVars, pureVars, mainVars, procVars>>

\* FetchRaises that leaves the for loop (break) instead of going on.
FetchRaises_Break ==
    /\ pc = "fetch"
    /\ failed' = failed \cup {agent_id}
    /\ events' = <<>>
    /\ pc' = "loop"
    /\ UNCHANGED <<chain, disk, last_block, seen_agents, current_block,
                   from_block, agent_id, yielded, scan_start, cycle>>
    /\ UNCHANGED <<posterVars, pureVars, mainVars, procVars>>

\* _fetch_agent_trust raises: logged, the loop goes on.
FetchRaises ==
    /\ pc = "fetch"
    /\ failed' = failed \cup {agent_id}
    /\ pc' = "loop"
    /\ UNCHANGED <<chain, disk, last_block, seen_agents, current_block,
                   from_block, events, agent_id, yielded, cycle,
                   scan_start>>
    /\ UNCHANGED <<posterVars, pureVars, mainVars, procVars>>

\* Resume that also writes the checkpoint after each entity.
Resume_SavesEach ==
    /\ pc = "yielded"
    /\ pc' = "loop"
    /\ disk' = Doc(last_block, seen_agents)
    /\ cycle' = [cycle EXCEPT !.saves = @ + 1, !.save_ok = TRUE]
    /\ UNCHANGED <<chain, last_block, seen_agents, current_block, from_block,
                   events, agent_id, yielded, failed, scan_start>>
    /\ UNCHANGED <<posterVars, pureVars, mainVars, procVars>>

\* The consumer of watch() is done with the profile and asks for the next.
Resume ==
    /\ pc = "yielded"
    /\ pc' = "loop"
    /\ UNCHANGED <<chain, disk, last_block, seen_agents, current_block,
                   from_block, events, agent_id, yielded, failed, cycle,
                   scan_start>>
    /\ UNCHANGED <<posterVars, pureVars, mainVars, procVars>>

\* LoopDone that records the start of the range as scanned.
LoopDone_SetsFrom ==
    /\ pc = "loop"
    /\ events = <<>>
    /\ last_block' = from_block
    /\ pc' = "save"
    /\ cycle' = [cycle EXCEPT !.outcome = "scanned"]
    /\ UNCHANGED <<chain, disk, seen_agents, current_block, from_block, events,
                   agent_id, yielded, failed,
                   scan_start>>
    /\ UNCHANGED <<posterVars, pureVars, mainVars, procVars>>

\* The loop is exhausted: self.last_block = current_block.
LoopDone ==
    /\ pc = "loop"
    /\ events = <<>>
    /\ last_block' = current_block
    /\ pc' = "save"
    /\ cycle' = [cycle EXCEPT !.outcome = "scanned"]
    /\ UNCHANGED <<chain, disk, seen_agents, current_block, from_block, events,
                   agent_id, yielded, failed,
                   scan_start>>
    /\ UNCHANGED <<posterVars, pureVars, mainVars, procVars>>

\* ---------------------------------------------------------------- watch
\* _save_state writes the file.
SaveState ==
    /\ pc = "save"
    /\ disk' = SavedDoc
    /\ pc' = "sleep"
    /\ cycle' = [cycle EXCEPT !.saves = @ + 1, !.save_ok = TRUE]
    /\ UNCHANGED <<chain, last_block, seen_agents, current_block, from_block,
                   events, agent_id, yielded, failed,
                   scan_start>>
    /\ UNCHANGED <<posterVars, pureVars, mainVars, procVars>>

\* _save_state fails (open or json.dump raises; caught and logged): the
\* file is as it was, or is left broken off.
SaveStateFails ==
    /\ pc = "save"
    /\ disk' \in {disk, Garbage}
    /\ pc' = "sleep"
    /\ cycle' = [cycle EXCEPT !.saves = @ + 1, !.save_ok = FALSE]
    /\ UNCHANGED <<chain, last_block, seen_agents, current_block, from_block,
                   events, agent_id, yielded, failed,
                   scan_start>>
    /\ UNCHANGED <<posterVars, pureVars, mainVars, procVars>>

\* asyncio.sleep(poll_interval) ends: the next cycle begins (the locals of
\* the finished _poll_once call are gone).
Sleep ==
    /\ pc = "sleep"
    /\ pc' = "poll"
    /\ current_block' = 0
    /\ from_block' = 0
    /\ events' = <<>>
    /\ agent_id' = 0
    /\ cycle' = NewCycle
    /\ UNCHANGED <<chain, disk, last_block, seen_agents, yielded, failed,
                   scan_start>>
    /\ UNCHANGED <<posterVars, pureVars, mainVars, procVars>>

\* GetAgent that marks the id as seen.
GetAgent_MarksSeen ==
    /\ \E id \in Ids : seen_agents' = seen_agents \cup {id}
    /\ UNCHANGED <<chain, disk, last_block, pc, current_block, from_block,
                   events, agent_id, yielded, failed, scan_start, cycle>>
    /\ UNCHANGED <<posterVars, pureVars, mainVars, procVars>>

\* get_agent(id), called by another task while the watcher is suspended:
\* _fetch_agent_trust returns or raises, the profile or None is returned,
\* and nothing of the watcher is assigned.
GetAgent ==
    /\ \E id \in Ids : UNCHANGED watcherVars
    /\ UNCHANGED <<posterVars, pureVars, mainVars, procVars>>

Next ==
    \/ Mine
    \/ PollRaises
    \/ PollNoNewBlocks
    \/ PollFetch
    \/ PollFetchFails
    \/ LoopSkip
    \/ LoopAccept
    \/ FetchYields
    \/ FetchRaises
    \/ Resume
    \/ LoopDone
    \/ SaveState
    \/ SaveStateFails
    \/ Sleep

Spec == Init /\ [][Next]_vars

\* ------------------------------------------------- the watcher, scheduled
\* The steps of the watcher task (and of the consumer that resumes it).
WatcherStep ==
    \/ PollRaises
    \/ PollNoNewBlocks
    \/ PollFetch
    \/ PollFetchFails
    \/ LoopSkip
    \/ LoopAccept
    \/ FetchYields
    \/ FetchRaises
    \/ Resume
    \/ LoopDone
    \/ SaveState
    \/ SaveStateFails
    \/ Sleep

\* A block with a mint of id 1 is mined.
MineLive ==
    /\ pc = "poll"
    /\ Height < MaxBlock
    /\ chain' = Append(chain, <<[from |-> ZERO_ADDRESS, tokenId |-> 1]>>)
    /\ UNCHANGED <<disk, last_block, seen_agents, pc, current_block, from_block,
                   events, agent_id, yielded, failed, cycle, scan_start>>
    /\ UNCHANGED <<posterVars, pureVars, mainVars, procVars>>

LiveInit ==
    /\ Init
    /\ chain = <<<<[from |-> ZERO_ADDRESS, tokenId |-> 1]>>>>

LiveNext == MineLive \/ WatcherStep

\* The event loop runs the watcher task whenever it can take a step: every
\* call returns or raises, the sleep ends, the consumer asks for the next
\* profile.  Every block of the chain holds a mint of id 1.
LiveSpec == LiveInit /\ [][LiveNext]_vars /\ WF_vars(WatcherStep)

\* ------------------------------------------------- the watcher, starting
\* The files a start can find.
StartDisks ==
    {Absent, Garbage, NotObject}
        \cup {Doc(b, s) : b \in {None, 0}, s \in SUBSET Ids}
        \cup {BadSeen(b) : b \in {None, 0}}

\* __init__ up to the call of _load_state: both fields at their defaults.
StartInit ==
    /\ chain = <<<<[from |-> ZERO_ADDRESS, tokenId |-> 1]>>>>
    /\ disk \in StartDisks
    /\ last_block = None
    /\ seen_agents = {}
    /\ pc = "start"
    /\ current_block = 0
    /\ from_block = 0
    /\ events = <<>>
    /\ agent_id = 0
    /\ yielded = <<>>
    /\ failed = {}
    /\ scan_start = None
    /\ cycle = NewCycle
    /\ PosterIdle
    /\ PureIdle
    /\ MainIdle
    /\ ProcFirst

\* _load_state runs and __init__ returns.
LoadStateAtStart ==
    /\ pc = "start"
    /\ last_block' = LoadState(disk).last_block
    /\ seen_agents' = LoadState(disk).seen_agents
    /\ pc' = "loaded"
    /\ UNCHANGED <<chain, disk, current_block, from_block, events, agent_id,
                   yielded, failed, scan_start, cycle>>
    /\ UNCHANGED <<posterVars, pureVars, mainVars, procVars>>

\* watch() is called: the first cycle begins.
StartWatch ==
    /\ pc = "loaded"
    /\ pc' = "poll"
    /\ cycle' = NewCycle
    /\ UNCHANGED <<chain, disk, last_block, seen_agents, current_block,
                   from_block, events, agent_id, yielded, failed, scan_start>>
    /\ UNCHANGED <<posterVars, pureVars, mainVars, procVars>>

StartNext ==
    \/ LoadStateAtStart
    \/ StartWatch
    \/ MineLive
    \/ WatcherStep

StartSpec == StartInit /\ [][StartNext]_vars

\* ======================================================== the publisher
\* The amounts by which the clock advances between two steps.
TickSteps == {1, HOUR - 1, HOUR}

\* Evict that also drops a timestamp exactly one hour old.
RECURSIVE Evict_Inclusive(_, _)
Evict_Inclusive(w, t) ==
    IF w # <<>> /\ Head(w) <= t - HOUR THEN Evict_Inclusive(Tail(w), t) ELSE w

\* Evict that drops nothing.
Evict_Never(w, t) == w

RECURSIVE Evict(_, _)
\* while recent_tweets and recent_tweets[0] < hour_ago: popleft()
Evict(w, t) ==
    IF w # <<>> /\ Head(w) < t - HOUR THEN Evict(Tail(w), t) ELSE w

\* RateAllows without the test.
RateAllows_Always(w) == TRUE

\* RateAllows with <= for <.
RateAllows_Inclusive(w) == Len(w) <= MaxPerHour

\* len(recent_tweets) < max_tweets_per_hour
RateAllows(w) == Len(w) < MaxPerHour

\* _record_tweet: append to a deque(maxlen = max_tweets_per_hour), which
\* drops its leftmost entry when it is full.
RecordTweet(w, t) ==
    IF Len(w) >= MaxPerHour THEN Tail(Append(w, t)) ELSE Append(w, t)

\* What a finished call leaves in the history.
CallOf(p) == [at |-> p.at, result |-> p.result, done |-> p.done]

\* The watcher is not running: it stays as constructed on an empty block 0.
WatcherParked ==
    /\ WatcherInit
    /\ chain = <<<<>>>>
    /\ disk = Absent

\* XPoster.__init__: a client exists only outside dry-run mode.
PosterInit ==
    /\ WatcherParked
    /\ PureIdle
    /\ MainIdle
    /\ ProcFirst
    /\ now = 0
    /\ ticks = 0
    /\ dry_run \in BOOLEAN
    /\ client \in {c \in BOOLEAN : c => ~dry_run}
    /\ recent_tweets = <<>>
    /\ post_pc = "idle"
    /\ post = NoPost
    /\ calls = <<>>

\* Time passes.
Tick ==
    /\ post_pc # "raised"
    /\ ticks < MaxTicks
    /\ \E d \in TickSteps : now' = now + d
    /\ ticks' = ticks + 1
    /\ UNCHANGED <<dry_run, client, recent_tweets, post_pc, post, calls>>
    /\ UNCHANGED <<watcherVars, pureVars, mainVars, procVars>>

\* post(): the rate check fails; False is returned.
PostRateLimited ==
    /\ post_pc = "idle"
    /\ Len(calls) < MaxPosts
    /\ ~RateAllows(Evict(recent_tweets, now))
    /\ recent_tweets' = Evict(recent_tweets, now)
    /\ post' = [at |-> now, before |-> recent_tweets,
                checked |-> recent_tweets', allowed |-> FALSE,
                published |-> FALSE, failure |-> "none", result |-> "false",
                done |-> now, after |-> recent_tweets']
    /\ calls' = Append(calls, CallOf(post'))
    /\ UNCHANGED <<now, ticks, dry_run, client, post_pc>>
    /\ UNCHANGED <<watcherVars, pureVars, mainVars, procVars>>

\* PostDryRun that does not record the timestamp.
PostDryRun_NoRecord ==
    /\ post_pc = "idle"
    /\ Len(calls) < MaxPosts
    /\ RateAllows(Evict(recent_tweets, now))
    /\ dry_run
    /\ recent_tweets' = Evict(recent_tweets, now)
    /\ post' = [at |-> now, before |-> recent_tweets,
                checked |-> Evict(recent_tweets, now), allowed |-> TRUE,
                published |-> FALSE, failure |-> "none", result |-> "true",
                done |-> now, after |-> recent_tweets']
    /\ calls' = Append(calls, CallOf(post'))
    /\ UNCHANGED <<now, ticks, dry_run, client, post_pc>>
    /\ UNCHANGED <<watcherVars, pureVars, mainVars, procVars>>

\* post() in dry-run mode: the tweet is logged, the timestamp recorded and
\* True returned.
PostDryRun ==
    /\ post_pc = "idle"
    /\ Len(calls) < MaxPosts
    /\ RateAllows(Evict(recent_tweets, now))
    /\ dry_run
    /\ recent_tweets' = RecordTweet(Evict(recent_tweets, now), now)
    /\ post' = [at |-> now, before |-> recent_tweets,
                checked |-> Evict(recent_tweets, now), allowed |-> TRUE,
                published |-> FALSE, failure |-> "none", result |-> "true",
                done |-> now, after |-> recent_tweets']
    /\ calls' = Append(calls, CallOf(post'))
    /\ UNCHANGED <<now, ticks, dry_run, client, post_pc>>
    /\ UNCHANGED <<watcherVars, pureVars, mainVars, procVars>>

\* post() without a client: False is returned.
PostNoClient ==
    /\ post_pc = "idle"
    /\ Len(calls) < MaxPosts
    /\ RateAllows(Evict(recent_tweets, now))
    /\ ~dry_run
    /\ ~client
    /\ recent_tweets' = Evict(recent_tweets, now)
    /\ post' = [at |-> now, before |-> recent_tweets,
                checked |-> recent_tweets', allowed |-> TRUE,
                published |-> FALSE, failure |-> "none", result |-> "false",
                done |-> now, after |-> recent_tweets']
    /\ calls' = Append(calls, CallOf(post'))
    /\ UNCHANGED <<now, ticks, dry_run, client, post_pc>>
    /\ UNCHANGED <<watcherVars, pureVars, mainVars, procVars>>

\* post() calls create_tweet in the executor and awaits it.
PostPublish ==
    /\ post_pc = "idle"
    /\ Len(calls) < MaxPosts
    /\ RateAllows(Evict(recent_tweets, now))
    /\ ~dry_run
    /\ client
    /\ recent_tweets' = Evict(recent_tweets, now)
    /\ post' = [at |-> now, before |-> recent_tweets,
                checked |-> recent_tweets', allowed |-> TRUE,
                published |-> TRUE, failure |-> "none", result |-> "pending",
                done |-> now, after |-> recent_tweets']
    /\ post_pc' = "publishing"
    /\ UNCHANGED <<now, ticks, dry_run, client, calls>>
    /\ UNCHANGED <<watcherVars, pureVars, mainVars, procVars>>

\* create_tweet returns: the timestamp is recorded and True returned.
PublishOk ==
    /\ post_pc = "publishing"
    /\ recent_tweets' = RecordTweet(recent_tweets, now)
    /\ post' = [post EXCEPT !.result = "true", !.done = now,
                            !.after = recent_tweets']
    /\ calls' = Append(calls, CallOf(post'))
    /\ post_pc' = "idle"
    /\ UNCHANGED <<now, ticks, dry_run, client>>
    /\ UNCHANGED <<watcherVars, pureVars, mainVars, procVars>>

\* create_tweet raises a tweepy.TweepyException (the API rejected the
\* request): caught, False is returned.
PublishRejected ==
    /\ post_pc = "publishing"
    /\ post' = [post EXCEPT !.result = "false", !.done = now,
                            !.failure = "rejected"]
    /\ calls' = Append(calls, CallOf(post'))
    /\ post_pc' = "idle"
    /\ UNCHANGED <<now, ticks, dry_run, client, recent_tweets>>
    /\ UNCHANGED <<watcherVars, pureVars, mainVars, procVars>>

\* create_tweet raises an exception that is no TweepyException (the HTTP
\* session's connection or timeout error): nothing in post() catches it.
PublishTransportError ==
    /\ post_pc = "publishing"
    /\ post' = [post EXCEPT !.result = "raised", !.done = now,
                            !.failure = "transport"]
    /\ post_pc' = "raised"
    /\ UNCHANGED <<now, ticks, dry_run, client, recent_tweets, calls>>
    /\ UNCHANGED <<watcherVars, pureVars, mainVars, procVars>>

PosterNext ==
    \/ Tick
    \/ PostRateLimited
    \/ PostDryRun
    \/ PostNoClient
    \/ PostPublish
    \/ PublishOk
    \/ PublishRejected
    \/ PublishTransportError

PosterSpec == PosterInit /\ [][PosterNext]_vars

\* ---------------------------------------------- the window, being read
\* TweetsRemaining that counts the window as it is, evicting nothing.
TweetsRemaining_NoEvict ==
    /\ call = NoCall
    /\ post_pc = "idle"
    /\ call' = [fn |-> "tweets_remaining", at |-> now,
                before |-> recent_tweets, window |-> recent_tweets,
                result |-> Max(0, MaxPerHour - Len(recent_tweets))]
    /\ UNCHANGED <<now, ticks, dry_run, client, recent_tweets, post_pc, post,
                   calls>>
    /\ UNCHANGED <<watcherVars, mainVars, procVars>>

\* poster.tweets_remaining is read (by the orchestrator's statistics line,
\* between two post() calls): the old timestamps are evicted and what is
\* left of the allowance is returned.
TweetsRemaining ==
    /\ call = NoCall
    /\ post_pc = "idle"
    /\ recent_tweets' = Evict(recent_tweets, now)
    /\ call' = [fn |-> "tweets_remaining", at |-> now,
                before |-> recent_tweets, window |-> recent_tweets',
                result |-> Max(0, MaxPerHour - Len(recent_tweets'))]
    /\ UNCHANGED <<now, ticks, dry_run, client, post_pc, post, calls>>
    /\ UNCHANGED <<watcherVars, mainVars, procVars>>

\* The property has returned its value.
ReadReturns ==
    /\ call # NoCall
    /\ call' = NoCall
    /\ UNCHANGED <<watcherVars, posterVars, mainVars, procVars>>

\* The publisher's steps while no read is under way.
PosterStep == call = NoCall /\ PosterNext

RateNext ==
    \/ PosterStep
    \/ TweetsRemaining
    \/ ReadReturns

\* The publisher with its window read between the calls.
RateSpec == PosterInit /\ [][RateNext]_vars

\* ================================================== the pure functions
Min(a, b) == IF a < b THEN a ELSE b

\* ----------------------------------------------------------- filters.py
\* TrustFilter()
DefaultFilter ==
    [min_trust_score |-> DefaultMinTrustScore,
     announce_chaoschain_registrations |-> TRUE,
     announce_with_any_reputation |-> TRUE]

\* should_announce with > for >= in rule 3.
should_announce_Strict(agent, config) ==
    IF config.announce_chaoschain_registrations /\ agent.registered_via_chaoschain
    THEN TRUE
    ELSE IF config.announce_with_any_reputation /\ agent.has_reputation
    THEN TRUE
    ELSE IF agent.average_score > config.min_trust_score
    THEN TRUE
    ELSE FALSE

should_announce(agent, config) ==
    IF config.announce_chaoschain_registrations /\ agent.registered_via_chaoschain
    THEN TRUE
    ELSE IF config.announce_with_any_reputation /\ agent.has_reputation
    THEN TRUE
    ELSE IF agent.average_score >= config.min_trust_score
    THEN TRUE
    ELSE FALSE

\* ----------------------------------------------------------- scoring.py
\* trust_bucket with > for >= at the top threshold.
trust_bucket_Strict(score) ==
    IF score > 90 THEN "exceptional"
    ELSE IF score >= 70 THEN "high"
    ELSE IF score >= 50 THEN "moderate"
    ELSE IF score >= 25 THEN "low"
    ELSE "minimal"

trust_bucket(score) ==
    IF score >= 90 THEN "exceptional"
    ELSE IF score >= 70 THEN "high"
    ELSE IF score >= 50 THEN "moderate"
    ELSE IF score >= 25 THEN "low"
    ELSE "minimal"

\* len(trust_emoji(score)): the characters of each literal in the source.
trust_emoji_len(score) ==
    IF score >= 90 THEN 4
    ELSE IF score >= 70 THEN 4
    ELSE IF score >= 50 THEN 4
    ELSE IF score >= 25 THEN 4
    ELSE 3

\* str(n) of a non-negative integer, as its sequence of decimal digits.
RECURSIVE Str(_)
Str(n) == IF n < 10 THEN <<n>> ELSE Append(Str(n \div 10), n % 10)

\* The attributes of AgentTrust.dimensions, in its order.
DimOrder == <<"quality", "reliability", "speed", "safety", "alignment">>

\* AgentTrust.dimensions: the names of the dimensions that are not None.
dimensions(agent) == SelectSeq(DimOrder, LAMBDA n : n \in DOMAIN agent.dims)

\* len(f"{d.dimension.value[:3].upper()}:{d.value}")
dim_part_len(agent, n) ==
    Len(SubSeq(n, 1, Min(MaxDimsShown, Len(n)))) + 1 + Len(Str(agent.dims[n]))

RECURSIVE SumLen(_, _)
SumLen(agent, names) ==
    IF names = <<>> THEN 0
    ELSE dim_part_len(agent, Head(names)) + SumLen(agent, Tail(names))

\* len(dim_summary): empty without dimensions, else a header and the first
\* three parts joined by " | ".
dim_summary_len(agent) ==
    LET shown == SubSeq(dimensions(agent), 1,
                        Min(MaxDimsShown, Len(dimensions(agent))))
    IN  IF shown = <<>> THEN 0
        ELSE DimHeaderChars + SumLen(agent, shown) + Len(" | ") * (Len(shown) - 1)

\* The length of the full template: the id three times, the score, the
\* bucket, the emoji, the dimension summary and the network.
full_len(agent, network) ==
    FullTemplateChars + 3 * Len(agent.agent_id) + Len(Str(agent.average_score))
        + Len(trust_bucket(agent.average_score))
        + trust_emoji_len(agent.average_score)
        + dim_summary_len(agent) + Len(network)

\* The length of the fallback template.
fallback_len(agent, network) ==
    FallbackTemplateChars + 3 * Len(agent.agent_id)
        + Len(Str(agent.average_score))
        + trust_emoji_len(agent.average_score) + Len(network)

\* UsesFallback that never replaces the full template.
UsesFallback_Never(agent, network) == FALSE

\* if len(tweet) > 280
UsesFallback(agent, network) == full_len(agent, network) > TweetLimit

\* len(format_tweet(agent, network))
format_tweet_len(agent, network) ==
    IF UsesFallback(agent, network)
    THEN fallback_len(agent, network)
    ELSE full_len(agent, network)

\* --------------------------------------- erc8004_watcher.py, reputation.py
\* reputation_data is None.
NoData == [present |-> FALSE, feedback_count |-> 0, average |-> 0]

\* value // (10 ** value_decimals) when value_decimals > 0
Normalize(value, decimals) ==
    IF decimals > 0 THEN value \div (10 ^ decimals) ELSE value

\* max(0, min(100, normalized_value))
Clamp(v) == Max(0, Min(100, v))

\* _fetch_reputation without the early return on an empty client list.
fetch_reputation_NoEarlyReturn(clients_raises, clients, summary_raises, summary) ==
    IF clients_raises
    THEN [data |-> NoData, summaries |-> <<>>]
    ELSE IF summary_raises
    THEN [data |-> NoData, summaries |-> <<clients>>]
    ELSE [data |-> [present |-> TRUE, feedback_count |-> summary.count,
                    average |-> Clamp(Normalize(summary.value, summary.decimals))],
          summaries |-> <<clients>>]

\* _fetch_reputation: what it returns and the address lists it passed to
\* getSummary, given what getClients and getSummary do.
fetch_reputation(clients_raises, clients, summary_raises, summary) ==
    IF clients_raises
    THEN [data |-> NoData, summaries |-> <<>>]
    ELSE IF clients = <<>>
    THEN [data |-> [present |-> TRUE, feedback_count |-> 0, average |-> 0],
          summaries |-> <<>>]
    ELSE IF summary_raises
    THEN [data |-> NoData, summaries |-> <<clients>>]
    ELSE [data |-> [present |-> TRUE, feedback_count |-> summary.count,
                    average |-> Clamp(Normalize(summary.value, summary.decimals))],
          summaries |-> <<clients>>]

\* from_contract without the lower clamp.
from_contract_NoFloor(raw_value, decimals) ==
    LET normalized == IF decimals > 0 THEN raw_value \div (10 ^ decimals)
                      ELSE raw_value
    IN  [value |-> Min(100, normalized), raw_value |-> raw_value,
         decimals |-> decimals]

\* from_contract that scales down by at least one digit.
from_contract_AlwaysScales(raw_value, decimals) ==
    LET normalized == raw_value \div (10 ^ Max(1, decimals))
    IN  [value |-> Max(0, Min(100, normalized)), raw_value |-> raw_value,
         decimals |-> decimals]

\* DimensionScore.from_contract
from_contract(raw_value, decimals) ==
    LET normalized == IF decimals > 0 THEN raw_value \div (10 ^ decimals)
                      ELSE raw_value
    IN  [value |-> Max(0, Min(100, normalized)), raw_value |-> raw_value,
         decimals |-> decimals]

\* sum(d.value for d in dimensions)
RECURSIVE Sum(_)
Sum(values) == IF values = <<>> THEN 0 ELSE Head(values) + Sum(Tail(values))

\* calculate_average_score that rounds up.
calculate_average_score_Ceil(values) ==
    IF values = <<>> THEN 0
    ELSE (Sum(values) + Len(values) - 1) \div Len(values)

\* calculate_average_score, on the values of the dimension scores.
calculate_average_score(values) ==
    IF values = <<>> THEN 0 ELSE Sum(values) \div Len(values)

\* create_agent_trust_from_sdk that leaves has_reputation at its default.
create_agent_trust_from_sdk_NoFlag(data) ==
    IF data.present
    THEN [feedback_count |-> data.feedback_count,
          average_score |-> data.average,
          has_reputation |-> FALSE]
    ELSE [feedback_count |-> 0, average_score |-> 0, has_reputation |-> FALSE]

\* create_agent_trust_from_sdk that takes has_reputation from the count alone.
create_agent_trust_from_sdk_CountOnly(data) ==
    IF data.present
    THEN [feedback_count |-> data.feedback_count,
          average_score |-> data.average,
          has_reputation |-> data.feedback_count > 0]
    ELSE [feedback_count |-> 0, average_score |-> 0, has_reputation |-> FALSE]

\* create_agent_trust_from_sdk: the aggregates of the profile (a dict with
\* keys is truthy, None is not).
create_agent_trust_from_sdk(data) ==
    IF data.present
    THEN [feedback_count |-> data.feedback_count,
          average_score |-> data.average,
          has_reputation |-> (data.feedback_count > 0 \/ data.average > 0)]
    ELSE [feedback_count |-> 0, average_score |-> 0, has_reputation |-> FALSE]

\* ------------------------------------------------------------- texts
\* A str is the sequence of its characters, a bytes value the sequence of
\* its byte values.
UpperCase ==
    <<"A", "B", "C", "D", "E", "F", "G", "H", "I", "J", "K", "L", "M", "N",
      "O", "P", "Q", "R", "S", "T", "U", "V", "W", "X", "Y", "Z">>
LowerCase ==
    <<"a", "b", "c", "d", "e", "f", "g", "h", "i", "j", "k", "l", "m", "n",
      "o", "p", "q", "r", "s", "t", "u", "v", "w", "x", "y", "z">>

\* str.lower()
Lower(text) ==
    [i \in 1..Len(text) |->
        IF \E k \in 1..Len(UpperCase) : UpperCase[k] = text[i]
        THEN LowerCase[CHOOSE k \in 1..Len(UpperCase) : UpperCase[k] = text[i]]
        ELSE text[i]]

\* marker in text
Contains(text, marker) ==
    \E i \in 0..(Len(text) - Len(marker)) :
        SubSeq(text, i + 1, i + Len(marker)) = marker

\* The characters calldata is written with here, and their ASCII codes.
AsciiChars ==
    <<"0", "A", "C", "H", "I", "N", "O", "S",
      "a", "c", "h", "i", "n", "o", "s", "x">>
AsciiCodes ==
    <<48, 65, 67, 72, 73, 78, 79, 83,
      97, 99, 104, 105, 110, 111, 115, 120>>

\* text.encode("ascii")
Encode(text) ==
    [i \in 1..Len(text) |->
        AsciiCodes[CHOOSE k \in 1..Len(AsciiChars) : AsciiChars[k] = text[i]]]

HexDigits ==
    <<"0", "1", "2", "3", "4", "5", "6", "7", "8", "9",
      "a", "b", "c", "d", "e", "f">>

RECURSIVE HexOf(_)
\* bytes.hex(): two lower-case hexadecimal digits for each byte.
HexOf(bytes) ==
    IF bytes = <<>> THEN <<>>
    ELSE <<HexDigits[(Head(bytes) \div 16) + 1], HexDigits[(Head(bytes) % 16) + 1]>>
            \o HexOf(Tail(bytes))

\* HexBytes.hex(): the digits, behind "0x" in the releases of the library
\* that print the prefix.
HexBytesHex(bytes, prefixed) ==
    (IF prefixed THEN <<"0", "x">> ELSE <<>>) \o HexOf(bytes)

\* ------------------------------------------- is_chaoschain_registration
MarkerName == <<"c", "h", "a", "o", "s", "c", "h", "a", "i", "n">>
MarkerAddress == <<"0", "x", "C", "H", "A", "O", "S">>
chaoschain_markers == <<MarkerName, MarkerAddress>>

\* uri = None, and a uri that is a str.
NoUri == [present |-> FALSE, text |-> <<>>]
Uri(text) == [present |-> TRUE, text |-> text]

\* is_chaoschain_registration({"input": input_data, "uri": uri}), for an
\* input_data that is a str.
is_chaoschain_registration(input_data, uri) ==
    IF \E k \in 1..Len(chaoschain_markers) :
          Contains(Lower(input_data), Lower(chaoschain_markers[k]))
    THEN TRUE
    ELSE IF uri.present /\ Contains(Lower(uri.text), MarkerName)
    THEN TRUE
    ELSE FALSE

\* ----------------------------------------------------- _fetch_agent_trust
\* fetch_agent_trust without the handler around ownerOf: its exception
\* leaves the function.
fetch_agent_trust_OwnerUnhandled(e) ==
    LET owner == IF e.owner_raises THEN ZERO_ADDRESS ELSE e.owner
        uri == IF e.uri_raises THEN NoUri ELSE Uri(e.uri)
        reputation_data ==
            fetch_reputation(e.clients_raises, e.clients, e.summary_raises,
                             e.summary).data
        input_data ==
            IF e.input # <<>> THEN HexBytesHex(Encode(e.input), e.prefixed)
            ELSE <<>>
        registered_via_chaoschain ==
            IF e.tx_hash /\ ~e.tx_raises
            THEN is_chaoschain_registration(input_data, uri)
            ELSE FALSE
        agent == create_agent_trust_from_sdk(reputation_data)
    IN  [raised |-> e.owner_raises, owner |-> owner, uri |-> uri,
         feedback_count |-> agent.feedback_count,
         average_score |-> agent.average_score,
         has_reputation |-> agent.has_reputation,
         registered_via_chaoschain |-> registered_via_chaoschain]

\* _fetch_agent_trust(agent_id, tx_hash, block_number): the profile it
\* returns, given what the chain calls do.  e has
\*   owner_raises, owner      ownerOf raises, or returns owner
\*   uri_raises, uri          tokenURI raises, or returns the text uri
\*   clients_raises, clients, summary_raises, summary    (fetch_reputation)
\*   tx_hash                  the caller passed a transaction hash
\*   tx_raises, input, prefixed   get_transaction raises, or returns a
\*                            transaction with the calldata input (a text
\*                            in ASCII), which HexBytes prints with or
\*                            without "0x"
\* raised says whether an exception left the function.
fetch_agent_trust(e) ==
    LET owner == IF e.owner_raises THEN ZERO_ADDRESS ELSE e.owner
        uri == IF e.uri_raises THEN NoUri ELSE Uri(e.uri)
        reputation_data ==
            fetch_reputation(e.clients_raises, e.clients, e.summary_raises,
                             e.summary).data
        input_data ==
            IF e.input # <<>> THEN HexBytesHex(Encode(e.input), e.prefixed)
            ELSE <<>>
        registered_via_chaoschain ==
            IF e.tx_hash /\ ~e.tx_raises
            THEN is_chaoschain_registration(input_data, uri)
            ELSE FALSE
        agent == create_agent_trust_from_sdk(reputation_data)
    IN  [raised |-> FALSE, owner |-> owner, uri |-> uri,
         feedback_count |-> agent.feedback_count,
         average_score |-> agent.average_score,
         has_reputation |-> agent.has_reputation,
         registered_via_chaoschain |-> registered_via_chaoschain]

\* ------------------------------------------------------------ the inputs
Scores == 0..100
ScoreSamples == {0, 9, 10, 24, 25, 49, 50, 69, 70, 89, 90, 99, 100}
MinScores == {0, DefaultMinTrustScore, 100}
Profiles ==
    [average_score : Scores, has_reputation : BOOLEAN,
     registered_via_chaoschain : BOOLEAN]
Filters ==
    [min_trust_score : MinScores,
     announce_chaoschain_registrations : BOOLEAN,
     announce_with_any_reputation : BOOLEAN]

\* 2^63 - 1 in decimal.
MaxInt63 == <<9, 2, 2, 3, 3, 7, 2, 0, 3, 6, 8, 5, 4, 7, 7, 5, 8, 0, 7>>
\* 2^256 - 1 in decimal, the largest tokenId of the registry.
MaxUint256 ==
    <<1, 1, 5, 7, 9, 2, 0, 8, 9, 2, 3, 7, 3, 1, 6, 1, 9, 5, 4, 2,
      3, 5, 7, 0, 9, 8, 5, 0, 0, 8, 6, 8, 7, 9, 0, 7, 8, 5, 3, 2,
      6, 9, 9, 8, 4, 6, 6, 5, 6, 4, 0, 5, 6, 4, 0, 3, 9, 4, 5, 7,
      5, 8, 4, 0, 0, 7, 9, 1, 3, 1, 2, 9, 6, 3, 9, 9, 3, 5>>
\* Entity ids as str() prints them: 0, 542, 2^63 - 1, 2^256 - 1 and 9...9 of
\* each length.
IdInputs ==
    {Str(0), Str(542), MaxInt63, MaxUint256}
        \cup {[i \in 1..k |-> 9] : k \in 1..MaxIdDigits}
DimValues == {0, 100}
DimInputs == UNION {[S -> DimValues] : S \in SUBSET Range(DimOrder)}
Networks == {"mainnet", "sepolia"}

ClientLists == {<<>>, <<"0xA">>, <<"0xA", "0xB">>}
SummaryValues ==
    {-1000, -101, -100, -5, -1, 0, 1, 87, 100, 101, 150, 999, 1000, 8700,
     10099, 10100}
Summaries == [count : 0..2, value : SummaryValues, decimals : 0..2]

\* Raw values of a dimension and their decimals.
RawValues ==
    (-MaxRaw..MaxRaw)
        \cup {-123456789, -100000, 99999, 100000, 100999, 101000, 123456789}
Decimals == 0..MaxDecimals
\* Lists of normalized dimension values.
AverageValues == {0, 1, 50, 99, 100}
ValueLists == UNION {[1..n -> AverageValues] : n \in 0..MaxDims}

\* Calldata and metadata URIs, with and without a marker.
InputTexts == {<<>>, <<"c", "h", "a", "o", "s", "c", "h", "a", "i", "n">>, <<"0", "x", "C", "H", "A", "O", "S">>, <<"A", "x", "o", "n">>}
UriTexts == {<<>>, <<"i", "p", "f", "s">>, <<"C", "h", "a", "o", "s", "C", "h", "a", "i", "n">>, <<"0", "x", "c", "h", "a", "o", "s">>}
\* What the chain calls of one enrichment do.
Enrichments ==
    [owner_raises : BOOLEAN, owner : {OTHER_ADDRESS},
     uri_raises : BOOLEAN, uri : UriTexts,
     clients_raises : BOOLEAN, clients : {<<>>, <<"0xA">>},
     summary_raises : BOOLEAN,
     summary : {[count |-> 0, value |-> 0, decimals |-> 0],
                [count |-> 2, value |-> 8700, decimals |-> 2]},
     tx_hash : BOOLEAN, tx_raises : BOOLEAN, input : InputTexts,
     prefixed : BOOLEAN]

\* The enrichments of entities whose chain calls other than the reputation
\* calls return, with and without a marker in the uri.
ProducedBy ==
    [owner_raises : {FALSE}, owner : {OTHER_ADDRESS},
     uri_raises : {FALSE}, uri : {<<"i", "p", "f", "s">>, MarkerName},
     clients_raises : BOOLEAN, clients : {<<>>, <<"0xA">>},
     summary_raises : BOOLEAN, summary : Summaries,
     tx_hash : {TRUE}, tx_raises : {FALSE}, input : {<<>>},
     prefixed : {FALSE}]
\* min_trust_score as configured: at least 1.
OrchMinScores == {1, DefaultMinTrustScore, 100}

PureInit ==
    /\ WatcherParked
    /\ PosterIdle
    /\ PureIdle
    /\ MainIdle
    /\ ProcFirst

CallShouldAnnounce ==
    /\ call = NoCall
    /\ \E agent \in Profiles, config \in Filters :
        call' = [fn |-> "should_announce", agent |-> agent, config |-> config,
                 result |-> should_announce(agent, config)]
    /\ UNCHANGED <<watcherVars, posterVars, mainVars, procVars>>

CallTrustBucket ==
    /\ call = NoCall
    /\ \E score \in Scores :
        call' = [fn |-> "trust_bucket", score |-> score,
                 result |-> trust_bucket(score)]
    /\ UNCHANGED <<watcherVars, posterVars, mainVars, procVars>>

CallFormatTweet ==
    /\ call = NoCall
    /\ \E id \in IdInputs, score \in ScoreSamples, dims \in DimInputs,
         network \in Networks :
        LET agent == [agent_id |-> id, average_score |-> score, dims |-> dims]
        IN  call' = [fn |-> "format_tweet", agent |-> agent,
                     network |-> network,
                     full |-> full_len(agent, network),
                     fallback |-> UsesFallback(agent, network),
                     length |-> format_tweet_len(agent, network)]
    /\ UNCHANGED <<watcherVars, posterVars, mainVars, procVars>>

\* _fetch_agent_trust, as far as the reputation goes.
CallFetchAgentTrust ==
    /\ call = NoCall
    /\ \E clients_raises \in BOOLEAN, clients \in ClientLists,
         summary_raises \in BOOLEAN, summary \in Summaries :
        LET r == fetch_reputation(clients_raises, clients, summary_raises, summary)
        IN  call' = [fn |-> "fetch_agent_trust",
                     clients_raises |-> clients_raises, clients |-> clients,
                     summary_raises |-> summary_raises, summary |-> summary,
                     summaries |-> r.summaries, data |-> r.data,
                     agent |-> create_agent_trust_from_sdk(r.data)]
    /\ UNCHANGED <<watcherVars, posterVars, mainVars, procVars>>

CallFromContract ==
    /\ call = NoCall
    /\ \E raw_value \in RawValues, decimals \in Decimals :
        call' = [fn |-> "from_contract", raw_value |-> raw_value,
                 decimals |-> decimals,
                 result |-> from_contract(raw_value, decimals)]
    /\ UNCHANGED <<watcherVars, posterVars, mainVars, procVars>>

\* from_contract applied to the value of a DimensionScore, with decimals 0.
CallRenormalize ==
    /\ call = NoCall
    /\ \E raw_value \in RawValues, decimals \in Decimals :
        LET first == from_contract(raw_value, decimals)
        IN  call' = [fn |-> "renormalize", raw_value |-> raw_value,
                     decimals |-> decimals, first |-> first,
                     second |-> from_contract(first.value, 0)]
    /\ UNCHANGED <<watcherVars, posterVars, mainVars, procVars>>

CallCalculateAverageScore ==
    /\ call = NoCall
    /\ \E values \in ValueLists :
        call' = [fn |-> "calculate_average_score", values |-> values,
                 result |-> calculate_average_score(values)]
    /\ UNCHANGED <<watcherVars, posterVars, mainVars, procVars>>

\* _fetch_agent_trust on one entity.
CallEnrich ==
    /\ call = NoCall
    /\ \E e \in Enrichments :
        call' = [fn |-> "enrich", e |-> e, agent |-> fetch_agent_trust(e)]
    /\ UNCHANGED <<watcherVars, posterVars, mainVars, procVars>>

\* The orchestrator's filter on a profile the watcher produced:
\* should_announce(agent, TrustFilter(min_trust_score = ...)).
CallAnnounceProduced ==
    /\ call = NoCall
    /\ \E e \in ProducedBy, min_trust_score \in OrchMinScores :
        LET agent == fetch_agent_trust(e)
            config == [DefaultFilter EXCEPT !.min_trust_score = min_trust_score]
        IN  call' = [fn |-> "announce_produced", e |-> e, agent |-> agent,
                     config |-> config,
                     result |-> should_announce(agent, config)]
    /\ UNCHANGED <<watcherVars, posterVars, mainVars, procVars>>

\* The function returns; the next call can be made.
Return ==
    /\ call # NoCall
    /\ call' = NoCall
    /\ UNCHANGED <<watcherVars, posterVars, mainVars, procVars>>

PureNext ==
    \/ Return
    \/ CallShouldAnnounce
    \/ CallTrustBucket
    \/ CallFormatTweet
    \/ CallFetchAgentTrust
    \/ CallFromContract
    \/ CallRenormalize
    \/ CallCalculateAverageScore
    \/ CallEnrich
    \/ CallAnnounceProduced

PureSpec == PureInit /\ [][PureNext]_vars

\* ===================================================== the orchestrator
\* The trust data an enrichment can have found: a profile with a score
\* above 0 has a reputation.
OrchProfiles ==
    {p \in [average_score : {0, DefaultMinTrustScore},
            has_reputation : BOOLEAN, registered_via_chaoschain : BOOLEAN] :
        p.average_score > 0 => p.has_reputation}

\* TrustFilter(min_trust_score = config.claw.min_trust_score): the two
\* flags keep their defaults, the threshold is the configured one.
OrchFilter ==
    [DefaultFilter EXCEPT !.min_trust_score = DefaultMinTrustScore]

\* post() calls that have begun and not returned.
InFlight == started - Len(calls)

\* Block 0 holds the mint of id 1, the watcher finds no checkpoint, the
\* publisher is in dry-run mode or has a client.  The run is shorter than
\* the rate-limit window: the clock stays where it is.
OrchInit ==
    /\ WatcherInit
    /\ chain = <<<<[from |-> ZERO_ADDRESS, tokenId |-> 1]>>>>
    /\ disk = Absent
    /\ PureIdle
    /\ MainIdle
    /\ ProcFirst
    /\ now = 0
    /\ ticks = 0
    /\ dry_run \in BOOLEAN
    /\ client = ~dry_run
    /\ recent_tweets = <<>>
    /\ post_pc = "idle"
    /\ post = NoPost
    /\ calls = <<>>

\* A block is mined that holds the mint of the next id (the last id again
\* when the ids are used up) or the transfer of id 1 to another holder.
MineNext ==
    /\ pc = "poll"
    /\ Height < MaxBlock
    /\ \E e \in {[from |-> ZERO_ADDRESS, tokenId |-> Min(Height + 2, MaxId)],
                  [from |-> OTHER_ADDRESS, tokenId |-> 1]} :
        chain' = Append(chain, <<e>>)
    /\ UNCHANGED <<disk, last_block, seen_agents, pc, current_block, from_block,
                   events, agent_id, yielded, failed, cycle, scan_start>>
    /\ UNCHANGED <<posterVars, pureVars, mainVars, procVars>>

\* async for agent in watcher.watch(): a profile arrives and should_announce
\* is evaluated on it.
MainFilter ==
    /\ pc = "yielded"
    /\ main_pc = "waiting"
    /\ \E agent \in OrchProfiles :
        /\ log' = Append(log, [id |-> agent_id, agent |-> agent,
                               passes |-> should_announce(agent, OrchFilter),
                               posted |-> FALSE, result |-> "none"])
        /\ main_pc' = IF should_announce(agent, OrchFilter)
                      THEN "announce" ELSE "resume"
    /\ UNCHANGED started
    /\ UNCHANGED <<watcherVars, posterVars, pureVars, procVars>>

\* MainCallPost that does not await the call (it runs as a task of its
\* own) and goes on with the loop.
MainCallPost_NoAwait ==
    /\ main_pc = "announce"
    /\ started' = started + 1
    /\ log' = [log EXCEPT ![Len(log)].posted = TRUE]
    /\ main_pc' = "resume"
    /\ UNCHANGED <<watcherVars, posterVars, pureVars, procVars>>

\* success = await poster.post(agent): the call begins.
MainCallPost ==
    /\ main_pc = "announce"
    /\ started' = started + 1
    /\ log' = [log EXCEPT ![Len(log)].posted = TRUE]
    /\ main_pc' = "posting"
    /\ UNCHANGED <<watcherVars, posterVars, pureVars, procVars>>

\* The steps of post(), taken while a call is in flight.
PostStep ==
    /\ InFlight > 0
    /\ \/ PostRateLimited
       \/ PostDryRun
       \/ PostNoClient
       \/ PostPublish
       \/ PublishOk
       \/ PublishRejected
       \/ PublishTransportError

\* MainPostReturned that tries again when post() returned False.
MainPostReturned_Retries ==
    /\ main_pc = "posting"
    /\ InFlight = 0
    /\ log' = [log EXCEPT ![Len(log)].result = calls[Len(calls)].result]
    /\ main_pc' = IF calls[Len(calls)].result = "false"
                  THEN "announce" ELSE "resume"
    /\ UNCHANGED started
    /\ UNCHANGED <<watcherVars, posterVars, pureVars, procVars>>

\* post() has returned: success or not, the loop body ends.
MainPostReturned ==
    /\ main_pc = "posting"
    /\ InFlight = 0
    /\ log' = [log EXCEPT ![Len(log)].result = calls[Len(calls)].result]
    /\ main_pc' = "resume"
    /\ UNCHANGED started
    /\ UNCHANGED <<watcherVars, posterVars, pureVars, procVars>>

\* The loop asks watch() for the next profile: the generator runs on.
MainResume ==
    /\ main_pc = "resume"
    /\ pc = "yielded"
    /\ pc' = "loop"
    /\ main_pc' = "waiting"
    /\ UNCHANGED <<started, log>>
    /\ UNCHANGED <<chain, disk, last_block, seen_agents, current_block,
                   from_block, events, agent_id, yielded, failed, cycle,
                   scan_start>>
    /\ UNCHANGED <<posterVars, pureVars, procVars>>

\* The watcher's steps other than the consumer's request for the next
\* profile, with a chain and a file system that do not fail.
WatcherRuns ==
    \/ PollNoNewBlocks
    \/ PollFetch
    \/ LoopSkip
    \/ LoopAccept
    \/ FetchYields
    \/ FetchRaises
    \/ LoopDone
    \/ SaveState
    \/ Sleep

OrchNext ==
    \/ MineNext
    \/ GetAgent
    \/ WatcherRuns
    \/ MainFilter
    \/ MainCallPost
    \/ PostStep
    \/ MainPostReturned
    \/ MainResume

OrchSpec == OrchInit /\ [][OrchNext]_vars

\* ======================================== the watcher, killed and restarted
\* The chain grows past the lookback window of a start without checkpoint.
CrashMaxBlock == LookbackBlocks + 1

\* The first process starts on block 0, which holds the mint of id 1, and
\* finds no checkpoint.
CrashInit ==
    /\ WatcherInit
    /\ chain = <<<<[from |-> ZERO_ADDRESS, tokenId |-> 1]>>>>
    /\ disk = Absent
    /\ PosterIdle
    /\ PureIdle
    /\ MainIdle
    /\ ProcFirst

\* A block is mined that holds the mint of the next id (the last id again
\* when the ids are used up); the watcher runs or is down.
MineMore ==
    /\ pc = "poll"
    /\ Height < CrashMaxBlock
    /\ chain' = Append(chain, <<[from |-> ZERO_ADDRESS,
                                 tokenId |-> Min(Height + 2, MaxId)]>>)
    /\ UNCHANGED <<disk, last_block, seen_agents, pc, current_block, from_block,
                   events, agent_id, yielded, failed, cycle, scan_start>>
    /\ UNCHANGED <<posterVars, pureVars, mainVars, procVars>>

\* The process is killed, wherever it is, and started again: what it held
\* in memory is gone, __init__ reads the file and watch() begins its first
\* cycle.  A process killed while _save_state writes (the file is opened
\* with "w", which empties it, before json.dump fills it) can leave a file
\* that is no JSON.
KillAndRestart ==
    /\ ~prior.happened
    /\ disk' \in (IF pc = "save" THEN {disk, Garbage} ELSE {disk})
    /\ last_block' = LoadState(disk').last_block
    /\ seen_agents' = LoadState(disk').seen_agents
    /\ pc' = "poll"
    /\ current_block' = 0
    /\ from_block' = 0
    /\ events' = <<>>
    /\ agent_id' = 0
    /\ yielded' = <<>>
    /\ failed' = {}
    /\ scan_start' = None
    /\ cycle' = [outcome |-> "none", prev_last_block |-> last_block',
                 seen_start |-> seen_agents', yield_mark |-> 0,
                 queried |-> FALSE, fetch_failed |-> FALSE, saves |-> 0,
                 save_ok |-> FALSE]
    /\ boot' = Boot(disk')
    /\ prior' = [happened |-> TRUE, pc |-> pc,
                 mid_cycle |-> /\ cycle.queried
                               /\ pc \in {"loop", "fetch", "yielded", "save"}
                               /\ disk' = disk,
                 from_block |-> from_block, current_block |-> current_block,
                 yielded |-> Range(yielded)]
    /\ UNCHANGED chain
    /\ UNCHANGED <<posterVars, pureVars, mainVars>>

CrashNext ==
    \/ MineMore
    \/ WatcherRuns
    \/ Resume
    \/ KillAndRestart

CrashSpec == CrashInit /\ [][CrashNext]_vars

\* ===================================================== claims: dedup, range
\* The profiles yielded in the current cycle.
YieldedThisCycle ==
    {yielded[i] : i \in (cycle.yield_mark + 1)..Len(yielded)}

\* The cycle's loop is over and get_logs had returned its events.
CycleScanned ==
    /\ pc \in {"save", "sleep"}
    /\ cycle.outcome = "scanned"
    /\ ~cycle.fetch_failed

\* C1: within one watcher process watch() yields a profile for an entity id
\* at most once, whatever the cycles' event lists hold (the same mint twice
\* in one list, or again in a later cycle).
C1_YieldedAtMostOnce ==
    \A i, j \in 1..Len(yielded) : yielded[i] = yielded[j] => i = j

\* C1's case: one cycle's event list held two mint events of the same id,
\* and the id was yielded in that cycle.
C1_Witness ==
    /\ CycleScanned
    /\ \E i, j \in 1..Len(Logs(from_block, current_block)) :
        /\ i < j
        /\ IsMint(Logs(from_block, current_block)[i])
        /\ Logs(from_block, current_block)[i] = Logs(from_block, current_block)[j]
        /\ Logs(from_block, current_block)[i].tokenId \in YieldedThisCycle

\* C2 (as claimed): a cycle whose get_logs call failed leaves last_block as
\* it was when the cycle began.
C2_FailedFetchKeepsLastBlock ==
    (pc \in {"save", "sleep"} /\ cycle.fetch_failed)
        => last_block = cycle.prev_last_block

\* C3 (as claimed): no mint is silently skipped; every mint event in a block
\* from the first scan's start up to last_block has its id in seen_agents.
C3_NoSkippedMint ==
    (scan_start # None /\ last_block # None)
        => MintedIn(scan_start, last_block) \subseteq seen_agents

\* ================================================ claims: checkpoint state
\* C4: last_block never decreases; a step that changes it sets a block
\* number higher than the one it held (or the first one, after None).
C4_LastBlockNeverDecreases ==
    [][last_block' # last_block
        => (last_block' # None /\ last_block' > last_block)]_vars

\* C4's case: the reported chain height was lower than the stored
\* last_block and the cycle ended with last_block kept.
C4_Witness ==
    /\ pc = "sleep"
    /\ cycle.outcome = "noop"
    /\ current_block < last_block
    /\ last_block = cycle.prev_last_block

\* C5: every id watch() has yielded is in seen_agents, and no step removes
\* an id from seen_agents.
C5_YieldedAreSeen ==
    /\ [](Range(yielded) \subseteq seen_agents)
    /\ [][seen_agents \subseteq seen_agents']_vars

\* C5's case: a second id has been yielded, after seen_agents held another.
C5_Witness ==
    /\ pc = "yielded"
    /\ Len(yielded) >= 2
    /\ cycle.seen_start # {}

\* C6: an id is in seen_agents while it is enriched; an id whose enrichment
\* raised is never enriched again and never yielded.
C6_FailedIsSkippedForGood ==
    /\ pc = "fetch" => (agent_id \in seen_agents /\ agent_id \notin failed)
    /\ failed \cap Range(yielded) = {}

\* C6's case: the mint event of an id whose enrichment raised in an earlier
\* cycle was delivered again, and the cycle ran to its end.
C6_Witness ==
    /\ CycleScanned
    /\ \E id \in failed \cap cycle.seen_start :
        id \in MintedIn(from_block, current_block)

\* C7: in a cycle whose events were fetched, every mint of the range that
\* was new and whose enrichment did not raise was yielded in that cycle, and
\* last_block is the scanned-to height.
C7_FailureAffectsOneEntity ==
    CycleScanned =>
        /\ last_block = current_block
        /\ (MintedIn(from_block, current_block) \ (cycle.seen_start \cup failed))
               \subseteq YieldedThisCycle

\* C7's case: the first event's enrichment raised and the mint after it, of
\* another id, was yielded in the same cycle.
C7_Witness ==
    /\ CycleScanned
    /\ Len(Logs(from_block, current_block)) = 2
    /\ \A i \in {1, 2} : IsMint(Logs(from_block, current_block)[i])
    /\ Logs(from_block, current_block)[1].tokenId \in failed \ cycle.seen_start
    /\ Logs(from_block, current_block)[2].tokenId \in YieldedThisCycle

\* The cycle has computed its range.
RangeComputed == cycle.queried \/ cycle.outcome = "noop"

\* C8: the range starts at current_block - lookback (not below 0) when
\* last_block was None and at last_block + 1 otherwise; events are queried
\* exactly when the start is not above current_block, and a cycle whose
\* start is above it yields nothing and leaves last_block as it was.
C8_ScanRange ==
    RangeComputed =>
        /\ (cycle.prev_last_block = None /\ current_block >= LookbackBlocks)
               => from_block = current_block - LookbackBlocks
        /\ (cycle.prev_last_block = None /\ current_block < LookbackBlocks)
               => from_block = 0
        /\ cycle.prev_last_block # None
               => from_block = cycle.prev_last_block + 1
        /\ cycle.queried <=> from_block <= current_block
        /\ from_block > current_block =>
               /\ cycle.outcome = "noop"
               /\ YieldedThisCycle = {}
               /\ last_block = cycle.prev_last_block

\* C8's case: a cycle whose start exceeded the chain height has ended.
C8_Witness ==
    /\ pc = "sleep"
    /\ cycle.outcome = "noop"
    /\ from_block = current_block + 1
    /\ ~cycle.queried

C10_OneWritePerCycle ==
    /\ [](pc \in {"poll", "loop", "fetch", "yielded", "save"} => cycle.saves = 0)
    /\ [](pc = "save" =>
            /\ events = <<>>
            /\ cycle.queried => last_block = current_block)
    /\ [](pc = "sleep" /\ cycle.outcome \in {"noop", "scanned"}
            => cycle.saves = 1)
    /\ [][disk' # disk =>
            /\ pc = "save"
            /\ disk' \in {Doc(last_block, seen_agents), Garbage}]_vars

\* C10's case: a cycle that yielded two profiles has written once.
C10_Witness ==
    /\ pc = "sleep"
    /\ Cardinality(YieldedThisCycle) = 2
    /\ cycle.saves = 1
    /\ cycle.save_ok

\* ======================================================= claims: the loop
\* C11: the watcher loop does not end on an error: whatever a cycle's steps
\* do (return or raise), the watcher comes to sleep, and after the sleep it
\* begins another cycle.
C11_LoopNeverStops ==
    /\ (pc # "sleep") ~> (pc = "sleep")
    /\ (pc = "sleep") ~> (pc = "poll" /\ cycle.outcome = "none")

\* C11's case: the watcher sleeps after a cycle in which get_logs raised and
\* the checkpoint write failed, a cycle begun after one in which an
\* enrichment raised.
C11_Witness ==
    /\ pc = "sleep"
    /\ cycle.fetch_failed
    /\ cycle.saves = 1
    /\ ~cycle.save_ok
    /\ failed # {}


\* ================================================ claims: the publisher
\* The calls of the history that returned True.
Succeeded == {i \in 1..Len(calls) : calls[i].result = "true"}

\* C12: in any interval of 3600 seconds, the number of post() calls that
\* returned true is at most max_per_hour.  Every such interval that
\* holds a success can be moved to start at its first success without
\* losing one, so the intervals starting at a success are all there is.
C12_AtMostMaxPerHour ==
    \A i \in Succeeded :
        Cardinality({j \in Succeeded :
                        /\ calls[j].done >= calls[i].done
                        /\ calls[j].done <= calls[i].done + HOUR})
            <= MaxPerHour

\* MaxPerHour successes, the last of them a full hour after the first, then
\* a further success more than an hour after the first.
C12_Witness ==
    \E i, j, k \in Succeeded :
        /\ i < j /\ j < k
        /\ calls[j].done = calls[i].done + HOUR
        /\ calls[k].done > calls[i].done + HOUR
        /\ Cardinality(Succeeded) > MaxPerHour

\* C13: a post() called while the window holds max_per_hour timestamps
\* of this very instant returns false, and a post() called when every
\* timestamp of the window is more than 3600 seconds old passes the rate
\* check (and, with nothing else in its way, returns true).
C13_FullThenFreeAgain ==
    post.result # "none" =>
        /\ (/\ Len(post.before) = MaxPerHour
            /\ \A i \in 1..Len(post.before) : post.before[i] = post.at)
           => (~post.allowed /\ post.result = "false")
        /\ (\A i \in 1..Len(post.before) : post.before[i] < post.at - HOUR)
           => /\ post.allowed
              /\ dry_run => post.result = "true"
              /\ (post.result = "false") =>
                    (~client \/ post.failure = "rejected")

\* MaxPerHour successes at one instant, a refusal at that instant, and a
\* success more than an hour later on a window that was still full.
C13_Witness ==
    /\ post.result = "true"
    /\ Len(post.before) = MaxPerHour
    /\ \E k \in 1..Len(calls) :
        /\ calls[k].result = "false"
        /\ Cardinality({j \in Succeeded :
                           j < k /\ calls[j].done = calls[k].at}) = MaxPerHour
        /\ post.at > calls[k].at + HOUR

\* The timestamps of a window that are at most 3600 seconds old at time t.
Fresh(w, t) == SelectSeq(w, LAMBDA x : x >= t - HOUR)

\* C14: a post() called while the window holds max_per_hour timestamps
\* of the last 3600 seconds returns false, never calls the publish
\* endpoint and records no timestamp.
C14_DroppedAtCapacity ==
    (post.result # "none" /\ Len(Fresh(post.before, post.at)) = MaxPerHour) =>
        /\ post.result = "false"
        /\ ~post.published
        /\ post.after = Fresh(post.before, post.at)
        /\ post_pc = "idle"

\* A refusal with a real client, on a window whose entries are not all of
\* the same instant.
C14_Witness ==
    /\ client
    /\ post.result = "false"
    /\ Len(Fresh(post.before, post.at)) = MaxPerHour
    /\ post.before[1] < post.before[MaxPerHour]
    /\ post.before[MaxPerHour] < post.at

\* C15: when the publish call fails, by rejection or by a transport
\* error, post() returns false, the error stays inside post() and no
\* timestamp is recorded.
C15_PublishFailureReturnsFalse ==
    (post.published /\ post.failure # "none") =>
        /\ post.result = "false"
        /\ post_pc = "idle"
        /\ post.after = post.checked
        /\ recent_tweets = post.checked

\* C16: a dry-run post that passes the rate check calls no publish
\* endpoint, records exactly one timestamp, that of the call, and returns
\* true.
C16_DryRunRecords ==
    (dry_run /\ post.result # "none" /\ post.allowed) =>
        /\ ~post.published
        /\ post.result = "true"
        /\ post.after = Append(post.checked, post.at)
        /\ recent_tweets = post.after

\* A dry-run post that fills the window after an old entry was evicted.
C16_Witness ==
    /\ dry_run
    /\ post.result = "true"
    /\ Len(post.checked) < Len(post.before)
    /\ Len(post.after) = Len(post.checked) + 1


\* =========================================== claims: the pure functions
\* C17: should_announce(profile, config) is true exactly when the
\* special-channel rule, the reputation rule or the score rule holds, and
\* under the default configuration a special-channel profile is announced
\* whatever its score.
C17_AnnounceRules ==
    call.fn = "should_announce" =>
        /\ call.result =
              (\/ (/\ call.config.announce_chaoschain_registrations
                   /\ call.agent.registered_via_chaoschain)
               \/ (/\ call.config.announce_with_any_reputation
                   /\ call.agent.has_reputation)
               \/ call.agent.average_score >= call.config.min_trust_score)
        /\ (call.config = DefaultFilter /\ call.agent.registered_via_chaoschain)
              => call.result = TRUE

\* Announced by the score rule alone, exactly at the threshold.
C17_Witness ==
    /\ call.fn = "should_announce"
    /\ call.config.min_trust_score = DefaultMinTrustScore
    /\ ~call.agent.registered_via_chaoschain
    /\ ~call.agent.has_reputation
    /\ call.agent.average_score = call.config.min_trust_score
    /\ call.result = TRUE

\* C18: when getClients returns an empty list, getSummary is not called
\* and the profile has feedback_count = 0 and average_score = 0; getSummary
\* is never called with an empty address list.
C18_NoClientsNoSummary ==
    call.fn = "fetch_agent_trust" =>
        /\ (~call.clients_raises /\ call.clients = <<>>) =>
              /\ call.summaries = <<>>
              /\ call.agent.feedback_count = 0
              /\ call.agent.average_score = 0
        /\ \A i \in 1..Len(call.summaries) : call.summaries[i] # <<>>

\* getClients returned an empty list while getSummary had feedback to report.
C18_Witness ==
    /\ call.fn = "fetch_agent_trust"
    /\ ~call.clients_raises
    /\ call.clients = <<>>
    /\ ~call.summary_raises
    /\ call.summary.count > 0
    /\ call.summary.value > 0
    /\ call.data.present
    /\ call.agent.feedback_count = 0

\* The inputs the length bound is stated for: an id of at most 2^63 - 1 (19
\* digits; the 19-digit inputs are 2^63 - 1 itself and 9...9 above it).
InDomain ==
    /\ Len(call.agent.agent_id) <= Len(MaxInt63)
    /\ call.agent.agent_id # [i \in 1..Len(MaxInt63) |-> 9]

\* C19: for an id up to 2^63 - 1, a score in 0..100, any subset of the five
\* dimensions with values up to 100 and either network, the announcement
\* has at most 280 characters and so has the fallback; for every input the
\* fallback is returned exactly when the full template exceeds 280.
C19_TweetFits ==
    call.fn = "format_tweet" =>
        /\ InDomain =>
              /\ call.length <= TweetLimit
              /\ fallback_len(call.agent, call.network) <= TweetLimit
        /\ call.fallback = (call.full > TweetLimit)
        /\ call.length = IF call.full > TweetLimit
                         THEN fallback_len(call.agent, call.network)
                         ELSE call.full

\* The longest announcement: id 2^63 - 1, score 100, all five dimensions at
\* 100.
C19_Witness ==
    /\ call.fn = "format_tweet"
    /\ call.agent.agent_id = MaxInt63
    /\ call.agent.average_score = 100
    /\ DOMAIN call.agent.dims = Range(DimOrder)
    /\ \A n \in DOMAIN call.agent.dims : call.agent.dims[n] = 100
    /\ ~call.fallback
    /\ call.length = 274

\* C20: trust_bucket maps 90..100 to exceptional, 70..89 to high, 50..69 to
\* moderate, 25..49 to low and 0..24 to minimal.
C20_Buckets ==
    call.fn = "trust_bucket" =>
        /\ call.result \in {"exceptional", "high", "moderate", "low", "minimal"}
        /\ (call.result = "exceptional") = (call.score >= 90)
        /\ (call.result = "high") = (call.score >= 70 /\ call.score <= 89)
        /\ (call.result = "moderate") = (call.score >= 50 /\ call.score <= 69)
        /\ (call.result = "low") = (call.score >= 25 /\ call.score <= 49)
        /\ (call.result = "minimal") = (call.score < 25)

\* A boundary value in the higher bucket.
C20_Witness ==
    /\ call.fn = "trust_bucket"
    /\ call.score = 90
    /\ call.result = "exceptional"


\* ============================================== claims: normalization
\* a divided by b, rounded towards zero.
TruncDiv(a, b) == IF a >= 0 THEN a \div b ELSE -((-a) \div b)

\* v limited to 0..100.
Clamped(v) == IF v < 0 THEN 0 ELSE IF v > 100 THEN 100 ELSE v

\* raw divided by 10^decimals and limited to 0..100.  Rounding the quotient
\* down and rounding it towards zero differ only below zero, where the
\* limit gives 0 for both.
Normalized(raw, decimals) == Clamped(raw \div (10 ^ decimals))

\* C21: the value of DimensionScore.from_contract and the average_score the
\* watcher computes from a summary are the raw value integer-divided by
\* 10^decimals and clamped, hence in 0..100, for negative raw values too.
C21_NormalizedInRange ==
    /\ call.fn = "from_contract" =>
          /\ call.result.value \in 0..100
          /\ call.result.value = Normalized(call.raw_value, call.decimals)
          /\ call.result.value =
                Clamped(TruncDiv(call.raw_value, 10 ^ call.decimals))
    /\ (/\ call.fn = "fetch_agent_trust"
        /\ ~call.clients_raises /\ call.clients # <<>> /\ ~call.summary_raises)
       => /\ call.agent.average_score \in 0..100
          /\ call.agent.average_score =
                Normalized(call.summary.value, call.summary.decimals)
          /\ call.agent.average_score =
                Clamped(TruncDiv(call.summary.value, 10 ^ call.summary.decimals))

\* A negative raw value whose quotient rounds down to -1 and towards zero
\* to 0.
C21_Witness ==
    /\ call.fn = "from_contract"
    /\ call.raw_value = -5
    /\ call.decimals = 1
    /\ call.result.value = 0

\* C22: normalizing a normalized value again, with decimals 0, returns it.
C22_Idempotent ==
    call.fn = "renormalize" =>
        /\ call.second.value = call.first.value
        /\ (call.decimals = 0 /\ call.raw_value \in 0..100) =>
              call.first.value = call.raw_value

\* A raw value scaled down and clamped, then normalized again.
C22_Witness ==
    /\ call.fn = "renormalize"
    /\ call.raw_value = 870
    /\ call.decimals = 1
    /\ call.first.value = 87
    /\ call.second.value = 87

\* C23: calculate_average_score returns the floor of sum / count, 0 for an
\* empty list, and a value between the smallest and the largest value.
C23_FloorAverage ==
    call.fn = "calculate_average_score" =>
        LET n == Len(call.values)
            total == Sum(call.values)
        IN  /\ n = 0 => call.result = 0
            /\ n > 0 =>
                  /\ call.result * n <= total
                  /\ total < (call.result + 1) * n
                  /\ \E i \in 1..n : call.values[i] <= call.result
                  /\ \E i \in 1..n : call.result <= call.values[i]

\* An average that is not whole: (99 + 100) / 2 gives 99.
C23_Witness ==
    /\ call.fn = "calculate_average_score"
    /\ call.values = <<99, 100>>
    /\ call.result = 99


\* ================================= claims: checkpoint and event handling
\* The ids this cycle has accepted (added to seen_agents) so far.
AcceptedThisCycle == seen_agents \ cycle.seen_start

\* C24: a checkpoint holding last_block = b holds in its seen set every id
\* accepted from a range scanned up to b: an accepted id that the file
\* lacks was minted in a block above b.  And a cycle's checkpoint write
\* comes when all its accepted ids are enriched, and contains them.
C24_SeenNotBehindLastBlock ==
    /\ (disk.kind = "doc" /\ disk.last_block # None) =>
          \A id \in seen_agents \ disk.seen_agents :
              id \in MintedIn(disk.last_block + 1, Height)
    /\ (pc = "sleep" /\ cycle.save_ok) =>
          /\ disk.kind = "doc"
          /\ disk.last_block = last_block
          /\ AcceptedThisCycle \subseteq disk.seen_agents
          /\ AcceptedThisCycle \subseteq
                (failed \cup {yielded[i] : i \in cycle.yield_mark + 1..Len(yielded)})

\* A cycle that accepted an id from a range above the old checkpoint has
\* written its checkpoint.
C24_Witness ==
    /\ pc = "sleep"
    /\ cycle.save_ok
    /\ cycle.outcome = "scanned"
    /\ cycle.prev_last_block # None
    /\ AcceptedThisCycle # {}
    /\ disk.last_block = current_block


\* C25: when __init__ returns, either the file was a checkpoint and both
\* fields hold what it stores, or it was missing or not a readable
\* checkpoint and last_block is null and the seen set empty, both together.
C25_LoadAllOrNothing ==
    pc = "loaded" =>
        IF disk.kind = "doc"
        THEN last_block = disk.last_block /\ seen_agents = disk.seen_agents
        ELSE last_block = None /\ seen_agents = {}


\* C26: only mints are processed: every id a cycle adds to seen_agents,
\* every id being enriched and every id yielded is the tokenId of a Transfer
\* from the zero address in the scanned blocks; a Transfer from another
\* address adds nothing and yields nothing.
C26_OnlyMints ==
    /\ AcceptedThisCycle \subseteq MintedIn(from_block, current_block)
    /\ pc = "fetch" => agent_id \in MintedIn(from_block, current_block)
    /\ \A i \in 1..Len(yielded) : yielded[i] \in MintedIn(0, Height)

\* A scanned range held a mint, which was yielded, and a Transfer between
\* two holders of an id that was never minted, which left no trace.
C26_Witness ==
    /\ pc = "save"
    /\ cycle.outcome = "scanned"
    /\ ~cycle.fetch_failed
    /\ Len(yielded) > cycle.yield_mark
    /\ \E e \in Range(Logs(from_block, current_block)) :
        /\ ~IsMint(e)
        /\ e.tokenId \notin seen_agents
        /\ e.tokenId \notin MintedIn(0, Height)


\* The ids this cycle has handed to the consumer, and those whose
\* enrichment has ended one way or the other.
HandedThisCycle == {yielded[i] : i \in cycle.yield_mark + 1..Len(yielded)}
EnrichedThisCycle == HandedThisCycle \cup failed

\* Where in the fetched range the first mint of an id is.
FirstMint(id) ==
    LET L == Logs(from_block, current_block)
        at == {k \in 1..Len(L) : IsMint(L[k]) /\ L[k].tokenId = id}
    IN  CHOOSE k \in at : \A m \in at : k <= m

\* C27: profiles are handed over one by one, in event order: when the
\* enrichment of an event begins, every id the cycle accepted before it has
\* been handed to the consumer (or has failed); the profiles of a cycle
\* come in the order of their mints; and while an enrichment runs or a
\* profile is with the consumer, the cycle has neither set last_block nor
\* written the checkpoint.
C27_Incremental ==
    /\ pc = "fetch" =>
          (AcceptedThisCycle \ {agent_id}) \subseteq EnrichedThisCycle
    /\ pc = "yielded" =>
          /\ yielded[Len(yielded)] = agent_id
          /\ AcceptedThisCycle \subseteq EnrichedThisCycle
    /\ pc \in {"fetch", "yielded"} =>
          /\ last_block = cycle.prev_last_block
          /\ cycle.saves = 0
          /\ \A i, j \in cycle.yield_mark + 1..Len(yielded) :
                i < j => FirstMint(yielded[i]) < FirstMint(yielded[j])

\* The enrichment of a second mint of the range runs, the profile of the
\* first having been handed over.
C27_Witness ==
    /\ pc = "fetch"
    /\ HandedThisCycle # {}
    /\ agent_id \notin HandedThisCycle
    /\ last_block = cycle.prev_last_block


\* ============================================ claims: the orchestrator
\* C28: at most one post() call is in flight, and while one is, the loop
\* body waits for it and the watcher stays suspended at its yield: the
\* next profile is not asked for before post() has returned.
C28_OnePostInFlight ==
    /\ InFlight \in {0, 1}
    /\ InFlight = 1 => (main_pc = "posting" /\ pc = "yielded")
    /\ post_pc # "idle" => InFlight = 1

\* A second post() call is publishing, the first having returned.
C28_Witness ==
    /\ InFlight = 1
    /\ post_pc = "publishing"
    /\ Len(calls) = 1
    /\ Len(yielded) = 2

\* The entries of the log whose loop body has ended.
Handled == {i \in 1..Len(log) : i < Len(log) \/ main_pc \in {"resume", "waiting"}}

\* C30: the orchestrator takes the yielded profiles in yield order, calls
\* post() once for each that passes the filter and for no other, and never
\* calls it again for a profile, whatever post() returned.
C30_PostOncePerPassingProfile ==
    /\ Len(log) <= Len(yielded)
    /\ Len(yielded) <= Len(log) + 1
    /\ \A i \in 1..Len(log) : log[i].id = yielded[i]
    /\ \A i, j \in 1..Len(log) : i < j => log[i].id # log[j].id
    /\ \A i \in 1..Len(log) :
          /\ log[i].passes =
                (\/ (/\ OrchFilter.announce_chaoschain_registrations
                     /\ log[i].agent.registered_via_chaoschain)
                 \/ (/\ OrchFilter.announce_with_any_reputation
                     /\ log[i].agent.has_reputation)
                 \/ log[i].agent.average_score >= OrchFilter.min_trust_score)
          /\ log[i].posted => log[i].passes
          /\ i \in Handled =>
                /\ log[i].posted = log[i].passes
                /\ log[i].posted = (log[i].result \in {"true", "false"})
    /\ started = Cardinality({i \in 1..Len(log) : log[i].posted})

\* A profile whose post() returned false, a later profile that was posted,
\* and the watcher running on.
C30_Witness ==
    /\ Len(log) = 2
    /\ log[1].result = "false"
    /\ log[2].result = "true"
    /\ started = 2
    /\ pc = "sleep"


\* C29: enrichment leaves the checkpoint alone: no step taken while
\* _fetch_agent_trust runs, and no get_agent call, changes seen_agents,
\* last_block or the file; seen_agents changes only when the polling loop
\* accepts an event, by that event's id.
C29_EnrichmentLeavesCheckpoint ==
    [][/\ pc = "fetch" =>
            /\ seen_agents' = seen_agents
            /\ last_block' = last_block
            /\ disk' = disk
       /\ seen_agents' # seen_agents =>
            /\ pc = "loop"
            /\ pc' = "fetch"
            /\ seen_agents' = seen_agents \cup {agent_id'}
       /\ last_block' # last_block => (pc = "loop" /\ pc' = "save")]_vars

\* One enrichment of the cycle has failed and one has returned; the cycle
\* has not set last_block yet.
C29_Witness ==
    /\ pc = "loop"
    /\ HandedThisCycle # {}
    /\ AcceptedThisCycle \cap failed # {}
    /\ last_block = cycle.prev_last_block
    /\ cycle.saves = 0


\* C39: with post() calls one after the other, a timestamp is appended
\* only to a window of fewer than max_tweets_per_hour entries: the window
\* never holds more than that, and whatever a step removes from it is more
\* than 3600 seconds old (the deque's maxlen never drops an entry); a call
\* that returns true appends the time of its return, and nothing else is
\* ever appended.
C39_AppendOnlyBelowLimit ==
    /\ [](Len(recent_tweets) <= MaxPerHour)
    /\ [][LET appended == /\ calls' # calls
                           /\ calls'[Len(calls')].result = "true"
               kept == Len(recent_tweets') - (IF appended THEN 1 ELSE 0)
               dropped == Len(recent_tweets) - kept
           IN  /\ kept >= 0
               /\ dropped >= 0
               /\ SubSeq(recent_tweets, dropped + 1, Len(recent_tweets))
                     = SubSeq(recent_tweets', 1, kept)
               /\ \A i \in 1..dropped : recent_tweets[i] < now - HOUR
               /\ appended =>
                     /\ kept < MaxPerHour
                     /\ recent_tweets'[Len(recent_tweets')] = now]_vars

\* A publish call on a window that was full before the rate check evicted
\* an old entry has returned true and filled the window again.
C39_Witness ==
    /\ client
    /\ post.result = "true"
    /\ post.published
    /\ Len(post.before) = MaxPerHour
    /\ Len(post.checked) = MaxPerHour - 1
    /\ Len(recent_tweets) = MaxPerHour
    /\ recent_tweets[Len(recent_tweets)] = post.done

\* ================================================ claims: the profile
\* C31: every profile _fetch_agent_trust returns has has_reputation =
\* (feedback_count > 0 or average_score > 0): when the registry reported a
\* summary, when the reputation fetch failed (getClients or getSummary
\* raised) and when the entity has no feedback givers.
C31_HasReputationIffAny ==
    call.fn = "fetch_agent_trust" =>
        /\ call.agent.has_reputation =
              (call.agent.feedback_count > 0 \/ call.agent.average_score > 0)
        /\ (call.clients_raises \/ call.clients = <<>> \/ call.summary_raises)
              => ~call.agent.has_reputation

\* A summary of no feedback entries and a positive value: the profile has
\* a reputation by its score alone.
C31_Witness ==
    /\ call.fn = "fetch_agent_trust"
    /\ ~call.clients_raises
    /\ call.clients # <<>>
    /\ ~call.summary_raises
    /\ call.summary.count = 0
    /\ call.agent.feedback_count = 0
    /\ call.agent.average_score = 87
    /\ call.agent.has_reputation

\* The text holds one of the known markers, letter case apart.
HasMarker(text) ==
    \E k \in 1..Len(chaoschain_markers) :
        Contains(Lower(text), Lower(chaoschain_markers[k]))

\* C32 (as claimed): the flag of a yielded profile, whose registration
\* transaction was fetched, is true exactly when the transaction's input
\* data or the entity's uri holds one of the known markers, compared
\* case-insensitively.
C32_FlagIffMarker ==
    (call.fn = "enrich" /\ call.e.tx_hash /\ ~call.e.tx_raises) =>
        call.agent.registered_via_chaoschain =
            (\/ HasMarker(call.e.input)
             \/ (call.agent.uri.present /\ HasMarker(call.agent.uri.text)))

\* ================================================ claims: the window
\* C33: right after a rate check, that of a post() call or that of a read
\* of tweets_remaining, every timestamp left in the window is at most 3600
\* seconds old, and tweets_remaining is max_per_hour less the number of
\* those timestamps, a value from 0 to max_per_hour.
C33_WindowFreshAfterCheck ==
    /\ post.result # "none" =>
          \A i \in 1..Len(post.checked) : post.checked[i] >= post.at - HOUR
    /\ call.fn = "tweets_remaining" =>
          /\ \A i \in 1..Len(call.window) : call.window[i] >= call.at - HOUR
          /\ recent_tweets = call.window
          /\ call.result = MaxPerHour - Len(call.window)
          /\ call.result \in 0..MaxPerHour

\* A read that evicted one timestamp, kept one that is exactly an hour old
\* and returned what is left of the allowance.
C33_Witness ==
    /\ call.fn = "tweets_remaining"
    /\ Len(call.before) = MaxPerHour
    /\ Len(call.window) = MaxPerHour - 1
    /\ call.window[1] = call.at - HOUR
    /\ call.result = 1

\* C38: a chain call of the enrichment that raises does not keep the
\* profile from being returned (and so yielded): the profile has the
\* default of the field that call was to give, a zero-address owner, no
\* uri, feedback_count 0 and average_score 0 with has_reputation false, a
\* false special-channel flag, and the other fields are as fetched.
C38_EnrichmentFailureYieldsDefaults ==
    call.fn = "enrich" =>
        /\ ~call.agent.raised
        /\ call.agent.owner =
              IF call.e.owner_raises THEN ZERO_ADDRESS ELSE call.e.owner
        /\ call.agent.uri.present = ~call.e.uri_raises
        /\ ~call.e.uri_raises => call.agent.uri.text = call.e.uri
        /\ (\/ call.e.clients_raises
            \/ (call.e.clients # <<>> /\ call.e.summary_raises))
           => /\ call.agent.feedback_count = 0
              /\ call.agent.average_score = 0
              /\ ~call.agent.has_reputation
        /\ (/\ ~call.e.clients_raises /\ call.e.clients # <<>>
            /\ ~call.e.summary_raises)
           => call.agent.feedback_count = call.e.summary.count
        /\ (call.e.tx_hash /\ call.e.tx_raises)
           => ~call.agent.registered_via_chaoschain

\* ownerOf, tokenURI, getClients and get_transaction all raise, for an
\* entity with feedback, and the profile is returned with every default.
C38_Witness ==
    /\ call.fn = "enrich"
    /\ call.e.owner_raises
    /\ call.e.uri_raises
    /\ call.e.clients_raises
    /\ call.e.summary.count > 0
    /\ call.e.tx_hash
    /\ call.e.tx_raises
    /\ ~call.agent.raised
    /\ call.agent.owner = ZERO_ADDRESS
    /\ call.agent.uri = NoUri
    /\ ~call.agent.has_reputation
    /\ ~call.agent.registered_via_chaoschain

\* C40: for a profile the watcher produced and the filter the orchestrator
\* builds (both flags true, min_trust_score at least 1) the threshold
\* decides nothing: should_announce is (registered_via_chaoschain or
\* has_reputation), because a profile whose average_score reaches the
\* threshold has has_reputation true.
C40_ThresholdNeverDecides ==
    call.fn = "announce_produced" =>
        /\ call.result =
              (call.agent.registered_via_chaoschain \/ call.agent.has_reputation)
        /\ call.agent.average_score >= call.config.min_trust_score
              => call.agent.has_reputation

\* A profile without the special-channel flag and without feedback entries
\* whose score is above the threshold: announced, and by the reputation
\* rule already.
C40_Witness ==
    /\ call.fn = "announce_produced"
    /\ ~call.agent.registered_via_chaoschain
    /\ call.agent.feedback_count = 0
    /\ call.config.min_trust_score = DefaultMinTrustScore
    /\ call.agent.average_score > call.config.min_trust_score
    /\ call.agent.has_reputation
    /\ call.result = TRUE

\* ============================================ claims: the announcement
\* C34 (as claimed): format_tweet returns at most 280 characters for every
\* profile the watcher can produce, that is for every entity id of the
\* registry's uint256 range.
C34_TweetFitsAnyTokenId ==
    call.fn = "format_tweet" => call.length <= TweetLimit

\* ================================================== claims: the ranges
\* C37: within one process the ranges of the cycles that advance
\* last_block follow one another without gap or overlap: a step that
\* changes last_block ends a cycle whose range began at the old last_block
\* + 1 (at the lookback start when there was none), was not empty, and sets
\* last_block to the end of that range; and what the process has scanned
\* is the one stretch from its first from_block to last_block.
C37_ContiguousRanges ==
    /\ [][last_block' # last_block =>
            /\ cycle.queried
            /\ last_block = cycle.prev_last_block
            /\ last_block # None => from_block = last_block + 1
            /\ last_block = None
                  => from_block \in {0, current_block - LookbackBlocks}
            /\ from_block <= current_block
            /\ last_block' = current_block]_vars
    /\ [](cycle.queried => (scan_start # None /\ scan_start <= from_block))
    /\ []((cycle.queried /\ scan_start < from_block)
            => from_block = cycle.prev_last_block + 1)

\* A later cycle of the process has advanced last_block from the end of
\* the range before it.
C37_Witness ==
    /\ pc = "save"
    /\ cycle.outcome = "scanned"
    /\ scan_start # None
    /\ scan_start < from_block
    /\ from_block = cycle.prev_last_block + 1
    /\ last_block = current_block

\* ============================================= claims: kill and restart
\* C35: a process started on a checkpoint that a cycle wrote begins its
\* scan at the checkpoint's last_block + 1 and never yields an id of the
\* checkpoint's seen set, also when a mint of such an id is in a range it
\* scans.
C35_ReplaySafeAcrossRestart ==
    (prior.happened /\ boot.loaded) =>
        /\ boot.last_block # None
        /\ scan_start # None => scan_start = boot.last_block + 1
        /\ boot.seen_agents \subseteq seen_agents
        /\ Range(yielded) \cap boot.seen_agents = {}

\* The restarted process has scanned a range with the mint of an id that
\* the checkpoint it loaded holds.
C35_Witness ==
    /\ prior.happened
    /\ boot.loaded
    /\ CycleScanned
    /\ from_block = boot.last_block + 1
    /\ MintedIn(from_block, current_block) \cap boot.seen_agents # {}

\* The restarted process has scanned up to the height the interrupted
\* cycle had read, or further, and its cycle has ended.
ScannedPastInterrupted ==
    /\ prior.happened
    /\ prior.mid_cycle
    /\ pc \in {"save", "sleep"}
    /\ cycle.outcome = "scanned"
    /\ last_block >= prior.current_block

\* C36 (as claimed): no mint is lost by a kill before a cycle's checkpoint
\* write, in the first cycle without a checkpoint as in any other: once the
\* restarted process has scanned past the interrupted cycle's range, every
\* mint of that range that the killed process had not yielded (and that
\* the loaded checkpoint does not hold as seen) has been scanned again and
\* yielded, unless its enrichment raised.
C36_NoMintLostByCrash ==
    ScannedPastInterrupted =>
        (MintedIn(prior.from_block, prior.current_block)
            \ (prior.yielded \cup boot.seen_agents))
                \subseteq (Range(yielded) \cup failed)

====
